---- MODULE Spec2Model ----
(***************************************************************************)
(* A model of the SMC trading system: the progressive SMC engine           *)
(* (core/strategy/progressive_smc.py), the candle builder                  *)
(* (core/data/candle_builder.py), the order manager                        *)
(* (core/execution/order_manager.py), the position manager                 *)
(* (core/risk/position_manager.py), the OB manager's touch query           *)
(* (core/strategy/ob_manager.py) and the snapshot files of the state       *)
(* manager (core/utils/state_persistence.py).                              *)
(*                                                                         *)
(* Prices are exact integers: one price level is PriceUnit model units,    *)
(* chosen so that the ATR (a mean over AtrWindow - 1 true ranges) and the  *)
(* OB midpoint are integers too.  Floating-point rounding is not modelled. *)
(***************************************************************************)
EXTENDS Integers, Sequences, FiniteSets, TLC

(* ------------------------------ bounds -------------------------------- *)
\* candles fed to one engine after Init
MaxBars == 4
\* candles fed to an engine that starts with a break level pending
MaxTrendBars == 1
\* accepted process_tick / force_close_all calls on one candle builder
MaxTicks == 5
\* effective PositionManager calls (those that change its state)
MaxPmCalls == 5
\* OrderManager calls
MaxOmCalls == 4
\* OBs in each of the engine's lists when check_ob_touch is called
MaxTouchObs == 2
\* StatePersistence calls (saves, loads, clears) and damaged files
MaxSpCalls == 4
\* on_tick deliveries followed
MaxWsTicks == 2

(* ------------------------- program constants -------------------------- *)
\* len(self.candles_buffer) < 200: candles needed before the ATR exists
AtrWindow == 200
\* self.max_buffer_size
MaxBufferSize == 300
\* config['mslen']
MsLen == 5
\* config['len']
PineLen == 5
\* the 5 of "atr / (5/len)"
PineBase == 5
\* min_val = 99999999.0 in _find_structure_point (in price levels)
MinValInit == 99999999
\* max_val = 0.0 in _find_structure_point
MaxValInit == 0
\* config['obmiti']
ObMiti == "Close"
\* config['buildsweep']
BuildSweep == TRUE
\* config['obmode']
ObMode == "Length"

\* initial_capital_per_symbol handed to PositionManager (its docstring's example)
InitialCapital == 100

\* self.timeframe_seconds of a CandleBuilder(timeframe_minutes=1)
TimeframeSeconds == 60

\* model units per price level: makes mean(TR) * len / 5 and (top+btm)/2 exact
PriceUnit == 2 * PineBase * (AtrWindow - 1)

(* ------------------------------ helpers ------------------------------- *)
\* Python's None / Optional values
None == <<>>
Some(v) == <<v>>
IsNone(x) == x = <<>>
Get(x) == x[1]

Max2(a, b) == IF a >= b THEN a ELSE b
Min2(a, b) == IF a <= b THEN a ELSE b
Abs(a) == IF a < 0 THEN 0 - a ELSE a

\* the price levels candles are drawn from
PriceLevels == {1, 2, 3, 4}

Candle(o, h, l, c) ==
    [open |-> o * PriceUnit, high |-> h * PriceUnit,
     low |-> l * PriceUnit, close |-> c * PriceUnit]

\* every well-formed candle (0 < low <= open, close <= high) over the price
\* levels that spans at most one level; flat bars (high = low) and bars with
\* a wick are among them
NarrowCandles ==
    { Candle(q[1], q[2], q[3], q[4]) :
        q \in { t \in PriceLevels \X PriceLevels \X PriceLevels \X PriceLevels :
                  /\ t[3] <= t[1] /\ t[1] <= t[2]
                  /\ t[3] <= t[4] /\ t[4] <= t[2]
                  /\ t[2] - t[3] <= 1 } }

\* two full-bodied bars spanning two levels: a bar whose body reaches from
\* below an OB's bottom to above its top
WideCandles == { Candle(1, 3, 1, 3), Candle(4, 4, 2, 2) }

\* the closed candles fed to the engine
Candles == NarrowCandles \cup WideCandles

\* bars that reach one level above PriceLevels: a break above a high made at
\* the top level, and an outside bar that wicks down to the lowest level
\* before it closes at the new high
HighCandles ==
    { Candle(4, 5, 4, 5), Candle(5, 5, 4, 4), Candle(5, 5, 5, 5), Candle(4, 5, 1, 5) }

\* the bars that lead an engine into a trend with a pullback: sweeps of the
\* first range, flat and full-bodied breakout bars, and full-bodied bars
\* stepping down or up one level at a time
LeadCandles ==
    { Candle(2, 2, 1, 2), Candle(2, 3, 2, 2),
      Candle(3, 3, 3, 3), Candle(4, 4, 4, 4), Candle(1, 1, 1, 1),
      Candle(4, 4, 3, 3), Candle(3, 3, 2, 2), Candle(2, 2, 1, 1),
      Candle(1, 2, 1, 2), Candle(2, 3, 2, 3), Candle(3, 4, 3, 4) }

\* the candle a warm-up history repeats: a quiet market (flat bars at level
\* 2, so the ATR stays a small fraction of a level) or a ranging one (every
\* bar spans levels 2..3, so the ATR is one level)
WarmCandles == { Candle(2, 2, 2, 2), Candle(2, 3, 2, 3) }

VARIABLES
    \* ---- ProgressiveSMC ----
    current_bar,      \* self.current_bar
    structure,        \* self.structure (Structure dataclass)
    bullish_obs,      \* self.bullish_obs: list of references into ob_heap
    bearish_obs,      \* self.bearish_obs
    ob_heap,          \* every OrderBlock object ever constructed, by identity
    candles_buffer,   \* self.candles_buffer
    up, dn,           \* self.up / self.dn
    pivot_highs,      \* self.pivot_highs
    pivot_lows,       \* self.pivot_lows
    events,           \* callbacks invoked by the last process_candle call, in order
    bars_fed,         \* number of process_candle calls since Init
    \* ---- CandleBuilder (one symbol) ----
    current_candle,   \* self.current_candles.get(symbol)
    completed_candles,\* self.completed_candles[symbol]
    candle_events,    \* candles handed to on_candle_closed, in order
    cb_stats,         \* self.stats
    tick_log,         \* accepted calls so far: <<"tick", t, p>> or <<"flush">>
    \* ---- PositionManager ----
    capital,          \* self.capital
    peak_capital,     \* self.peak_capital
    positions,        \* self.positions: symbol -> Position, None when absent
    closed_positions, \* self.closed_positions
    pm_stats,         \* self.stats
    close_credit,     \* per symbol, the sum of pnl - fees over its closes
    partial_credit,   \* per symbol, the sum of pnl - fees over its partial exits
    pm_calls,         \* effective calls so far
    pm_last,          \* the last call, effective or not
    \* ---- OrderManager ----
    orders,           \* self.orders: the dict's Order values in insertion order
    completed_orders, \* self.completed_orders
    next_internal_id, \* self.next_internal_id
    om_stats,         \* self.stats
    last_call,        \* the last call and what it returned
    om_calls,         \* calls so far
    \* ---- OBManager ----
    touch,            \* the last check_ob_touch call and what it returned
    \* ---- StatePersistence ----
    files,            \* content of each snapshot file, None when it does not exist
    temp,             \* the temp file of the _atomic_write in progress
    leftover_temps,   \* temp files left in the directory by crashed writes
    corrupt_copies,   \* .corrupt.<timestamp> copies made so far
    sp_call,          \* the current or last call and how it ended
    sp_calls,         \* calls so far
    \* ---- DeltaWebSocket ----
    ws                \* the client's attributes, its connection and its two tasks

smcVars == <<current_bar, structure, bullish_obs, bearish_obs, ob_heap,
             candles_buffer, up, dn, pivot_highs, pivot_lows, events, bars_fed>>

cbVars == <<current_candle, completed_candles, candle_events, cb_stats, tick_log>>

pmVars == <<capital, peak_capital, positions, closed_positions, pm_stats,
            close_credit, partial_credit, pm_calls, pm_last>>

omVars == <<orders, completed_orders, next_internal_id, om_stats, last_call, om_calls>>

touchVars == <<touch>>

spVars == <<files, temp, leftover_temps, corrupt_copies, sp_call, sp_calls>>

wsVars == <<ws>>

vars == <<smcVars, cbVars, pmVars, omVars, touchVars, spVars, wsVars>>

(* ======================= ProgressiveSMC engine ======================== *)

\* self.candles_buffer is a list of candle dicts.  The model keeps it
\* run-length encoded: n copies of the warm-up candle `warm` (which carry no
\* 'atr' key), followed by the explicit list `tail`.  BufLen, BufAt, BufAppend
\* and BufPopFirst are len(), indexing (1-based), append() and pop(0).
WithAtr(c, a) ==
    [open |-> c.open, high |-> c.high, low |-> c.low, close |-> c.close, atr |-> a]

BufLen(b) == b.n + Len(b.tail)

BufAt(b, i) == IF i <= b.n THEN WithAtr(b.warm, None) ELSE b.tail[i - b.n]

BufAppend(b, c) == [b EXCEPT !.tail = Append(b.tail, c)]

BufPopFirst(b) ==
    IF b.n > 0 THEN [b EXCEPT !.n = b.n - 1] ELSE [b EXCEPT !.tail = Tail(b.tail)]

\* candle['atr'] = atr on the candle just appended (the same dict object)
BufSetLastAtr(b, a) == [b EXCEPT !.tail[Len(b.tail)].atr = a]

\* Structure() defaults
StructureInit ==
    [zn |-> 0, zz |-> 0, bos |-> None, choch |-> None, loc |-> 0, temp |-> 0,
     trend |-> 0, start |-> 0, main |-> 0, xloc |-> 0,
     upsweep |-> FALSE, dnsweep |-> FALSE, txt |-> ""]

\* OrderBlock.get_type
get_type(ob) ==
    IF ob.invalidated THEN "invalidated"
    ELSE IF ob.isbb THEN "breaker" ELSE "fresh"

TrueRange(cur, prev) ==
    Max2(Max2(cur.high - cur.low, Abs(cur.high - prev.close)),
         Abs(cur.low - prev.close))

\* sum of the true ranges of bars i .. last (each against the bar before it),
\* for i above the warm-up run; the range is summed by halves
RECURSIVE SumTRTail(_, _, _)
SumTRTail(b, i, last) ==
    IF i > last THEN 0
    ELSE IF i = last THEN TrueRange(BufAt(b, i), BufAt(b, i - 1))
    ELSE SumTRTail(b, i, (i + last) \div 2) + SumTRTail(b, (i + last) \div 2 + 1, last)

\* sum of the true ranges of bars i .. last: inside the warm-up run every
\* term is the true range of the warm-up candle against itself
SumTR(b, i, last) ==
    LET inRun == Min2(last, b.n) - i + 1
    IN (IF inRun > 0 THEN inRun * TrueRange(b.warm, b.warm) ELSE 0)
       + SumTRTail(b, Max2(i, b.n + 1), last)

\* _calculate_atr: mean true range of the last 200 candles, / (5 / len)
calculate_atr(buf) ==
    IF BufLen(buf) < AtrWindow THEN None
    ELSE LET first == BufLen(buf) - AtrWindow + 1
         IN Some((SumTR(buf, first + 1, BufLen(buf)) * PineLen)
                   \div (PineBase * (AtrWindow - 1)))

\* _detect_pivots: the bar mslen back is a pivot when strictly above (below)
\* the mslen bars on its left and not below (above) the bars on its right
IsPivot(buf, center, useHigh) ==
    LET v(i) == IF useHigh THEN BufAt(buf, i).high ELSE BufAt(buf, i).low
    IN /\ \A i \in (center - MsLen)..(center - 1) :
             IF useHigh THEN v(i) < v(center) ELSE v(i) > v(center)
       /\ \A i \in (center + 1)..Min2(center + MsLen, BufLen(buf)) :
             IF useHigh THEN v(i) <= v(center) ELSE v(i) >= v(center)

detect_pivots(buf, cur, pivots, useHigh) ==
    IF BufLen(buf) < MsLen * 2 + 1 THEN pivots
    ELSE LET center == BufLen(buf) - MsLen   \* 1-based index of center_idx
         IN IF center - 1 >= MsLen /\ IsPivot(buf, center, useHigh)
            THEN Append(pivots,
                        <<cur - MsLen,
                          IF useHigh THEN BufAt(buf, center).high
                          ELSE BufAt(buf, center).low>>)
            ELSE pivots

\* _find_structure_point: offset (bars back from the current bar) of the
\* highest high / lowest low among the last max(1, current_bar - loc) bars.
\* A value competes only if it beats the initial max_val / min_val
\* (v < MinValInit levels is written v \div PriceUnit < MinValInit).
BeatsInitial(v, use_max) ==
    IF use_max THEN v > MaxValInit * PriceUnit
    ELSE v \div PriceUnit < MinValInit

\* the high / low of the candle i bars back from the current one
FindValue(buf, i, use_max) ==
    IF use_max THEN BufAt(buf, BufLen(buf) - i).high
    ELSE BufAt(buf, BufLen(buf) - i).low

\* the offsets from..n - 1 inside the buffer (`if candle_idx >= 0`) whose
\* value beats the initial max_val / min_val
FindCandidates(buf, from, n, use_max) ==
    { i \in from..(n - 1) : /\ BufLen(buf) - i >= 1
                            /\ BeatsInitial(FindValue(buf, i, use_max), use_max) }

\* the loop's result: it replaces idx only on a strictly better value
\* (`if high_val > max_val` / `if low_val < min_val`), so it ends on the
\* first offset that holds the extreme; idx keeps its initial value when no
\* offset qualifies
FindLoop(buf, from, n, use_max) ==
    IF FindCandidates(buf, from, n, use_max) = {} THEN from
    ELSE CHOOSE i \in FindCandidates(buf, from, n, use_max) :
           \A j \in FindCandidates(buf, from, n, use_max) :
              IF use_max
              THEN \/ FindValue(buf, j, use_max) < FindValue(buf, i, use_max)
                   \/ (FindValue(buf, j, use_max) = FindValue(buf, i, use_max) /\ i <= j)
              ELSE \/ FindValue(buf, j, use_max) > FindValue(buf, i, use_max)
                   \/ (FindValue(buf, j, use_max) = FindValue(buf, i, use_max) /\ i <= j)

\* a faulty _find_structure_point: the search starts one bar back, so the
\* candle being processed is never the origin of the OB it creates
find_structure_point_before_current(ms, buf, cur, use_max, sweep) ==
    FindLoop(buf, 1, Max2(1, cur - (IF sweep THEN ms.xloc ELSE ms.loc)) + 1, use_max)

find_structure_point(ms, buf, cur, use_max, sweep) ==
    FindLoop(buf, 0, Max2(1, cur - (IF sweep THEN ms.xloc ELSE ms.loc)), use_max)

\* OB coordinates from the origin candle (obmode 'Length' caps by the ATR)
\* a faulty ob_top: the full range of the origin bar, as in the other obmode
ob_top_full_range(c, atr_val, is_bullish) == c.high

ob_top(c, atr_val, is_bullish) ==
    IF is_bullish /\ ObMode = "Length"
    THEN (IF c.low + atr_val > c.high THEN c.high ELSE c.low + atr_val)
    ELSE c.high

ob_btm(c, atr_val, is_bullish) ==
    IF ~is_bullish /\ ObMode = "Length"
    THEN (IF c.high - atr_val < c.low THEN c.low ELSE c.high - atr_val)
    ELSE c.low

\* candle.get('atr', 0)
AtrOf(c) == IF IsNone(c.atr) THEN 0 ELSE Get(c.atr)

\* OrderBlock(...) as _create_order_block constructs it from origin candle c
NewOrderBlock(is_bullish, top, btm, loc, c) ==
    [bull |-> is_bullish, top |-> top, btm |-> btm,
     avg |-> (top + btm) \div 2,
     loc |-> loc,
     dir |-> IF c.close > c.open THEN 1 ELSE -1,
     isbb |-> FALSE, bbloc |-> None,
     invalidated |-> FALSE, invalidation_bar |-> None]

\* insert(0, ob) into the list of its direction, then on_ob_created.
\* e is the engine state being built by this call: [ms, bull, bear, heap, events]
InsertOrderBlock(e, ob) ==
    [e EXCEPT
       !.heap = Append(e.heap, ob),
       !.bull = IF ob.bull THEN <<Len(e.heap) + 1>> \o e.bull ELSE e.bull,
       !.bear = IF ob.bull THEN e.bear ELSE <<Len(e.heap) + 1>> \o e.bear,
       !.events = Append(e.events,
           <<"created", Len(e.heap) + 1, IF ob.bull THEN "bullish" ELSE "bearish">>)]

\* _create_order_block once the origin candle c (idx bars back) is known
CreateFromCandle(e, cur, is_bullish, idx, c) ==
    InsertOrderBlock(e,
        NewOrderBlock(is_bullish,
                      ob_top(c, AtrOf(c), is_bullish),
                      ob_btm(c, AtrOf(c), is_bullish),
                      cur - idx, c))

\* _create_order_block once idx is known: actual_idx and its bounds check
CreateAt(e, buf, cur, is_bullish, idx) ==
    IF Max2(0, BufLen(buf) - idx - 1) >= BufLen(buf) THEN e
    ELSE CreateFromCandle(e, cur, is_bullish, idx,
                          BufAt(buf, Max2(0, BufLen(buf) - idx - 1) + 1))

\* _create_order_block
create_order_block(e, buf, cur, is_bullish) ==
    CreateAt(e, buf, cur, is_bullish,
             find_structure_point(e.ms, buf, cur, ~is_bullish, FALSE))

\* up/dn tracking at the head of _process_market_structure: the `high > up`
\* step with u0, d0 the values after the None checks ...
UpDnCrossUp(u0, d0, c) ==
    [up |-> IF c.high > u0 THEN c.high ELSE u0,
     dn |-> IF c.high > u0 THEN c.low ELSE d0,
     crossup |-> c.high > u0]

\* ... and the `low < dn` step on its result
UpDnCrossDn(r, c) ==
    [up |-> Some(IF c.low < r.dn THEN c.high ELSE r.up),
     dn |-> Some(IF c.low < r.dn THEN c.low ELSE r.dn),
     crossup |-> r.crossup, crossdn |-> c.low < r.dn]

UpdateUpDn(up0, dn0, c) ==
    UpDnCrossDn(UpDnCrossUp(IF IsNone(up0) THEN c.high ELSE Get(up0),
                            IF IsNone(dn0) THEN c.low ELSE Get(dn0), c), c)

\* STATE 0: the first processed candle seeds bos/choch
State0(e, cur, c) ==
    [e EXCEPT !.ms = [e.ms EXCEPT
        !.start = 1, !.trend = 0, !.bos = Some(c.high), !.choch = Some(c.low),
        !.loc = cur, !.temp = cur, !.main = 0, !.xloc = cur]]

\* ms.txt = txt before an OB is created
WithTxt(e, txt) == [e EXCEPT !.ms = [e.ms EXCEPT !.txt = txt]]

\* STATE 1, after the bullish OB of a first break down
State1BreakDown(ea, cur, c) ==
    [ea EXCEPT !.ms = [ea.ms EXCEPT
        !.trend = -1, !.choch = ea.ms.bos, !.bos = None, !.start = 2,
        !.loc = cur, !.main = c.low, !.temp = cur, !.xloc = cur]]

\* STATE 1, after the bearish OB of a first break up
State1BreakUp(ea, cur, c) ==
    [ea EXCEPT !.ms = [ea.ms EXCEPT
        !.trend = 1, !.bos = None, !.start = 2,
        !.loc = cur, !.main = c.high, !.temp = cur, !.xloc = cur]]

\* a faulty State1: the breaks are tested before the sweeps
State1_breaks_first(e, buf, cur, c) ==
    IF c.close <= Get(e.ms.choch)
    THEN State1BreakDown(create_order_block(WithTxt(e, "choch"), buf, cur, TRUE),
                         cur, c)
    ELSE IF c.close >= Get(e.ms.bos)
    THEN State1BreakUp(create_order_block(WithTxt(e, "choch"), buf, cur, FALSE),
                       cur, c)
    ELSE IF BuildSweep /\ c.low <= Get(e.ms.choch) /\ c.close >= Get(e.ms.choch)
    THEN [e EXCEPT !.ms = [e.ms EXCEPT
             !.dnsweep = TRUE, !.choch = Some(c.low), !.xloc = cur]]
    ELSE IF BuildSweep /\ c.high >= Get(e.ms.bos) /\ c.close <= Get(e.ms.bos)
    THEN [e EXCEPT !.ms = [e.ms EXCEPT
             !.upsweep = TRUE, !.bos = Some(c.high), !.xloc = cur]]
    ELSE e

\* STATE 1: sweeps first, then the first break
State1(e, buf, cur, c) ==
    IF BuildSweep /\ c.low <= Get(e.ms.choch) /\ c.close >= Get(e.ms.choch)
    THEN [e EXCEPT !.ms = [e.ms EXCEPT
             !.dnsweep = TRUE, !.choch = Some(c.low), !.xloc = cur]]
    ELSE IF BuildSweep /\ c.high >= Get(e.ms.bos) /\ c.close <= Get(e.ms.bos)
    THEN [e EXCEPT !.ms = [e.ms EXCEPT
             !.upsweep = TRUE, !.bos = Some(c.high), !.xloc = cur]]
    ELSE IF c.close <= Get(e.ms.choch)
    THEN State1BreakDown(create_order_block(WithTxt(e, "choch"), buf, cur, TRUE),
                         cur, c)
    ELSE IF c.close >= Get(e.ms.bos)
    THEN State1BreakUp(create_order_block(WithTxt(e, "choch"), buf, cur, FALSE),
                       cur, c)
    ELSE e

\* ms.txt, ms.zz, ms.zn before the OB of a STATE 2 break of level
WithBreak(e, txt, level, cur) ==
    [e EXCEPT !.ms = [e.ms EXCEPT !.txt = txt, !.zz = level, !.zn = cur]]

\* STATE 2, after the OB of a break of structure: ms.xloc, ms.bos = None
WithXlocNoBos(ea, cur) ==
    [ea EXCEPT !.ms = [ea.ms EXCEPT !.xloc = cur, !.bos = None]]

\* STATE 2 bearish: a new low moves main / temp
BearTrackMain(ms, cur, c) ==
    IF c.low <= ms.main THEN [ms EXCEPT !.main = c.low, !.temp = cur] ELSE ms

\* STATE 2 bearish: bos is set on a bullish bar after a bullish bar at a crossup
BearSetBos(ms, prev, cur, c, cross) ==
    IF /\ IsNone(ms.bos)
       /\ cross.crossup /\ c.close > c.open /\ cur > 0
       /\ prev.close > prev.open
    THEN [ms EXCEPT !.bos = Some(ms.main), !.loc = ms.temp, !.xloc = ms.temp]
    ELSE ms

\* STATE 2 bearish: break of bos creates a bearish OB
BearBos(e, buf, cur, c) ==
    IF ~IsNone(e.ms.bos) /\ c.close <= Get(e.ms.bos)
    THEN WithXlocNoBos(
            create_order_block(WithBreak(e, "bos", Get(e.ms.bos), cur),
                               buf, cur, FALSE), cur)
    ELSE e

\* STATE 2 bearish, after the bullish OB of a change of character
BearAfterChoch(eb, cur, c) ==
    [eb EXCEPT !.ms = [eb.ms EXCEPT
        !.choch = IF IsNone(eb.ms.bos) THEN eb.ms.choch ELSE eb.ms.bos,
        !.bos = None, !.main = c.high, !.trend = 1,
        !.loc = cur, !.xloc = cur, !.temp = cur]]

\* STATE 2 bearish: upsweep of choch, else change of character
BearChoch(e, buf, cur, c) ==
    IF BuildSweep /\ c.high >= Get(e.ms.choch) /\ c.close <= Get(e.ms.choch)
    THEN [e EXCEPT !.ms = [e.ms EXCEPT
             !.upsweep = TRUE, !.choch = Some(c.high), !.xloc = cur]]
    ELSE IF c.close >= Get(e.ms.choch)
    THEN BearAfterChoch(
            create_order_block(WithBreak(e, "choch", Get(e.ms.choch), cur),
                               buf, cur, TRUE), cur, c)
    ELSE e

\* STATE 2 bearish: dnsweep of bos, else the bos and choch tests
BearBreaks(e, buf, cur, c) ==
    IF /\ ~IsNone(e.ms.bos) /\ BuildSweep
       /\ c.low <= Get(e.ms.bos) /\ c.close >= Get(e.ms.bos)
    THEN [e EXCEPT !.ms = [e.ms EXCEPT
             !.dnsweep = TRUE, !.bos = Some(c.low), !.xloc = cur]]
    ELSE BearChoch(BearBos(e, buf, cur, c), buf, cur, c)

\* STATE 2, bearish trend
State2Bear(e, buf, cur, c, cross) ==
    BearBreaks([e EXCEPT !.ms = BearSetBos(BearTrackMain(e.ms, cur, c),
                                           BufAt(buf, BufLen(buf) - 1),
                                           cur, c, cross)],
               buf, cur, c)

\* STATE 2 bullish: a new high moves main / temp
BullTrackMain(ms, cur, c) ==
    IF c.high >= ms.main THEN [ms EXCEPT !.main = c.high, !.temp = cur] ELSE ms

\* STATE 2 bullish: bos is set on a bearish bar after a bearish bar at a crossdn
BullSetBos(ms, prev, cur, c, cross) ==
    IF /\ IsNone(ms.bos)
       /\ cross.crossdn /\ c.close < c.open /\ cur > 0
       /\ prev.close < prev.open
    THEN [ms EXCEPT !.bos = Some(ms.main), !.loc = ms.temp, !.xloc = ms.temp]
    ELSE ms

\* STATE 2 bullish: break of bos creates a bullish OB
BullBos(e, buf, cur, c) ==
    IF ~IsNone(e.ms.bos) /\ c.close >= Get(e.ms.bos)
    THEN WithXlocNoBos(
            create_order_block(WithBreak(e, "bos", Get(e.ms.bos), cur),
                               buf, cur, TRUE), cur)
    ELSE e

\* a faulty BullAfterChoch: main keeps the high of the bullish leg
BullAfterChoch_keeps_main(eb, cur, c) ==
    [eb EXCEPT !.ms = [eb.ms EXCEPT
        !.choch = IF IsNone(eb.ms.bos) THEN eb.ms.choch ELSE eb.ms.bos,
        !.bos = None, !.trend = -1,
        !.loc = cur, !.temp = cur, !.xloc = cur]]

\* STATE 2 bullish, after the bearish OB of a change of character
BullAfterChoch(eb, cur, c) ==
    [eb EXCEPT !.ms = [eb.ms EXCEPT
        !.choch = IF IsNone(eb.ms.bos) THEN eb.ms.choch ELSE eb.ms.bos,
        !.bos = None, !.main = c.low, !.trend = -1,
        !.loc = cur, !.temp = cur, !.xloc = cur]]

\* STATE 2 bullish: dnsweep of choch, else change of character
BullChoch(e, buf, cur, c) ==
    IF BuildSweep /\ c.low <= Get(e.ms.choch) /\ c.close >= Get(e.ms.choch)
    THEN [e EXCEPT !.ms = [e.ms EXCEPT
             !.dnsweep = TRUE, !.choch = Some(c.low), !.xloc = cur]]
    ELSE IF c.close <= Get(e.ms.choch)
    THEN BullAfterChoch(
            create_order_block(WithBreak(e, "choch", Get(e.ms.choch), cur),
                               buf, cur, FALSE), cur, c)
    ELSE e

\* STATE 2 bullish: upsweep of bos, else the bos and choch tests
BullBreaks(e, buf, cur, c) ==
    IF /\ ~IsNone(e.ms.bos) /\ BuildSweep
       /\ c.high >= Get(e.ms.bos) /\ c.close <= Get(e.ms.bos)
    THEN [e EXCEPT !.ms = [e.ms EXCEPT
             !.upsweep = TRUE, !.bos = Some(c.high), !.xloc = cur]]
    ELSE BullChoch(BullBos(e, buf, cur, c), buf, cur, c)

\* STATE 2, bullish trend
State2Bull(e, buf, cur, c, cross) ==
    BullBreaks([e EXCEPT !.ms = BullSetBos(BullTrackMain(e.ms, cur, c),
                                           BufAt(buf, BufLen(buf) - 1),
                                           cur, c, cross)],
               buf, cur, c)

\* ms.upsweep = False; ms.dnsweep = False
ResetSweeps(e) ==
    [e EXCEPT !.ms = [e.ms EXCEPT !.upsweep = FALSE, !.dnsweep = FALSE]]

\* the dispatch of _process_market_structure on ms.start / ms.trend
Dispatch(e, buf, cur, c, cross) ==
    IF e.ms.start = 0 THEN State0(e, cur, c)
    ELSE IF e.ms.start = 1 THEN State1(e, buf, cur, c)
    ELSE IF e.ms.start = 2 /\ e.ms.trend = -1 THEN State2Bear(e, buf, cur, c, cross)
    ELSE IF e.ms.start = 2 /\ e.ms.trend = 1 THEN State2Bull(e, buf, cur, c, cross)
    ELSE e

\* _process_market_structure after the up/dn update
process_market_structure(e, buf, cur, c, cross) ==
    Dispatch(ResetSweeps(e), buf, cur, c, cross)

\* a faulty BelowBottom: the Close rule with <= in place of <
BelowBottom_inclusive(ob, c) ==
    \/ (ObMiti = "Close" /\ Min2(c.close, c.open) <= ob.btm)
    \/ (ObMiti = "Wick" /\ c.low < ob.btm)
    \/ (ObMiti = "Avg" /\ c.low < ob.avg)

\* the mitigation / invalidation tests of _check_mitigation (Close, Wick, Avg)
BelowBottom(ob, c) ==
    \/ (ObMiti = "Close" /\ Min2(c.close, c.open) < ob.btm)
    \/ (ObMiti = "Wick" /\ c.low < ob.btm)
    \/ (ObMiti = "Avg" /\ c.low < ob.avg)

AboveTop(ob, c) ==
    \/ (ObMiti = "Close" /\ Max2(c.close, c.open) > ob.top)
    \/ (ObMiti = "Wick" /\ c.high > ob.top)
    \/ (ObMiti = "Avg" /\ c.high > ob.avg)

\* a faulty MitigateOne: the invalidation test is a second `if` rather than
\* the `else` branch, so an OB that has just become a breaker is tested for
\* invalidation on the same candle
MitigateOne_fallthrough(m, id, cur, c, dirn) ==
    LET ob == m.heap[id]
        mitigated == IF ob.bull THEN BelowBottom(ob, c) ELSE AboveTop(ob, c)
        broken == IF ob.bull THEN AboveTop(ob, c) ELSE BelowBottom(ob, c)
        m1 == IF ~ob.isbb /\ mitigated
              THEN [m EXCEPT
                      !.heap[id] = [ob EXCEPT !.isbb = TRUE, !.bbloc = Some(cur)],
                      !.events = Append(m.events, <<"breaker", id, dirn>>)]
              ELSE m
        ob1 == m1.heap[id]
    IN IF ob.invalidated THEN m
       ELSE IF ob1.isbb /\ broken
            THEN [m1 EXCEPT
                    !.heap[id] = [ob1 EXCEPT !.invalidated = TRUE,
                                             !.invalidation_bar = Some(cur)],
                    !.removed = m1.removed \cup {id},
                    !.events = Append(m1.events, <<"invalidated", id, dirn>>)]
            ELSE m1

\* one iteration of a _check_mitigation loop on the OB referenced by id;
\* m = [heap, events, removed]
MitigateOne(m, id, cur, c, dirn) ==
    LET ob == m.heap[id]
        mitigated == IF ob.bull THEN BelowBottom(ob, c) ELSE AboveTop(ob, c)
        broken == IF ob.bull THEN AboveTop(ob, c) ELSE BelowBottom(ob, c)
    IN IF ob.invalidated THEN m
       ELSE IF ~ob.isbb
       THEN IF mitigated
            THEN [m EXCEPT
                    !.heap[id] = [ob EXCEPT !.isbb = TRUE, !.bbloc = Some(cur)],
                    !.events = Append(m.events, <<"breaker", id, dirn>>)]
            ELSE m
       ELSE IF broken
            THEN [m EXCEPT
                    !.heap[id] = [ob EXCEPT !.invalidated = TRUE,
                                            !.invalidation_bar = Some(cur)],
                    !.removed = m.removed \cup {id},
                    !.events = Append(m.events, <<"invalidated", id, dirn>>)]
            ELSE m

RECURSIVE MitigateList(_, _, _, _, _, _)
MitigateList(m, list, i, cur, c, dirn) ==
    IF i > Len(list) THEN m
    ELSE MitigateList(MitigateOne(m, list[i], cur, c, dirn), list, i + 1, cur, c, dirn)

\* the loop over one list starts with an empty to_remove
LoopStart(e) == [heap |-> e.heap, events |-> e.events, removed |-> {}]

\* _check_mitigation, bullish part: m is the loop's result; pop the removed
BullishDone(e, m) ==
    [e EXCEPT !.heap = m.heap, !.events = m.events,
              !.bull = SelectSeq(e.bull, LAMBDA id : id \notin m.removed)]

\* _check_mitigation, bearish part
BearishDone(e, m) ==
    [e EXCEPT !.heap = m.heap, !.events = m.events,
              !.bear = SelectSeq(e.bear, LAMBDA id : id \notin m.removed)]

MitigateBullish(e, cur, c) ==
    BullishDone(e, MitigateList(LoopStart(e), e.bull, 1, cur, c, "bullish"))

MitigateBearish(e, cur, c) ==
    BearishDone(e, MitigateList(LoopStart(e), e.bear, 1, cur, c, "bearish"))

\* _check_mitigation: the bullish list, its removals, then the bearish list
check_mitigation(e, cur, c) ==
    MitigateBearish(MitigateBullish(e, cur, c), cur, c)

\* a faulty still_buffering: the warm-up lasts one candle longer
still_buffering_inclusive(buf) == BufLen(buf) <= AtrWindow

\* process_candle: `if len(self.candles_buffer) < 200`, the candle is only
\* buffered and counted
still_buffering(buf) == BufLen(buf) < AtrWindow

\* a faulty append_and_trim: the buffer is one list shared by every engine
\* (a class attribute) instead of the instance's own
append_and_trim_shared(buf, c) ==
    LET buf1 == BufAppend(candles_buffer, WithAtr(c, None))
    IN IF BufLen(buf1) > MaxBufferSize THEN BufPopFirst(buf1) ELSE buf1

\* process_candle: append to the buffer, trim it to max_buffer_size
append_and_trim(buf, c) ==
    LET buf1 == BufAppend(buf, WithAtr(c, None))
    IN IF BufLen(buf1) > MaxBufferSize THEN BufPopFirst(buf1) ELSE buf1

\* process_candle past its required-keys check, on candle c.  Each
\* intermediate value of the call is bound once, in the order the code
\* computes it.
AcceptCandle(c) ==
    /\ bars_fed' = bars_fed + 1
    /\ current_bar' = current_bar + 1
    /\ \E buf2 \in {append_and_trim(candles_buffer, c)} :
       \E atr \in {calculate_atr(buf2)} :
          IF still_buffering(buf2) \/ IsNone(atr)
          THEN /\ candles_buffer' = buf2
               /\ events' = <<>>
               /\ UNCHANGED <<structure, bullish_obs, bearish_obs, ob_heap,
                              up, dn, pivot_highs, pivot_lows>>
          ELSE \E buf3 \in {BufSetLastAtr(buf2, atr)} :
               \E ca \in {BufAt(buf3, BufLen(buf3))} :
               \E cross \in {UpdateUpDn(up, dn, ca)} :
               \E e1 \in {process_market_structure(
                            [ms |-> structure, bull |-> bullish_obs,
                             bear |-> bearish_obs, heap |-> ob_heap,
                             events |-> <<>>],
                            buf3, current_bar, ca, cross)} :
               \E e2 \in {check_mitigation(e1, current_bar, ca)} :
                  /\ candles_buffer' = buf3
                  /\ pivot_highs' = detect_pivots(buf3, current_bar, pivot_highs, TRUE)
                  /\ pivot_lows' = detect_pivots(buf3, current_bar, pivot_lows, FALSE)
                  /\ up' = cross.up
                  /\ dn' = cross.dn
                  /\ structure' = e2.ms
                  /\ bullish_obs' = e2.bull
                  /\ bearish_obs' = e2.bear
                  /\ ob_heap' = e2.heap
                  /\ events' = e2.events

\* process_candle on a well-formed candle with all required keys
ProcessCandle ==
    /\ bars_fed < MaxBars
    /\ \E c \in Candles : AcceptCandle(c)

\* process_candle on a well-formed candle, for the runs that start in a trend
ProcessTrendCandle ==
    /\ bars_fed < MaxTrendBars
    /\ \E c \in Candles \cup HighCandles : AcceptCandle(c)

\* candles whose OHLC values are impossible: high below low, open above the
\* high, close below the low
ImpossibleCandles == { Candle(2, 1, 3, 2), Candle(4, 3, 2, 2), Candle(2, 3, 2, 1) }

\* the candle dicts handed to process_candle by any caller: a few
\* well-formed ones and the impossible ones
IntakeCandles ==
    { Candle(1, 1, 1, 1), Candle(2, 2, 2, 2), Candle(2, 3, 2, 3) } \cup ImpossibleCandles

\* process_candle on any candle dict: one that lacks a required key is
\* logged and dropped; every other one is processed, whatever its values
ProcessAnyCandle ==
    /\ bars_fed < MaxBars
    /\ \E has_keys \in BOOLEAN, c \in IntakeCandles :
         IF ~has_keys THEN UNCHANGED smcVars
         ELSE AcceptCandle(c)

\* the fields of a new ProgressiveSMC (__init__) other than the history
EngineFields ==
    /\ structure = StructureInit
    /\ up = None
    /\ dn = None
    /\ pivot_highs = <<>>
    /\ pivot_lows = <<>>
    /\ events = <<>>
    /\ bars_fed = 0

\* ProgressiveSMC.__init__
EngineConstructed ==
    /\ EngineFields
    /\ bullish_obs = <<>>
    /\ bearish_obs = <<>>
    /\ ob_heap = <<>>

\* a new engine that has been fed nothing
EngineIdle ==
    /\ candles_buffer = [warm |-> Candle(1, 1, 1, 1), n |-> 0, tail |-> <<>>]
    /\ current_bar = 0

\* an engine that has been fed AtrWindow - 1 warm-up candles: process_candle
\* only buffered and counted them, every other field is as constructed
WarmedUp ==
    /\ EngineConstructed
    /\ \E w \in WarmCandles :
            /\ candles_buffer = [warm |-> w, n |-> AtrWindow - 1, tail |-> <<>>]
            /\ current_bar = AtrWindow - 1

\* a second ProgressiveSMC instance, as a value: the fields __init__ sets,
\* after AtrWindow - 1 warm-up candles w (buffered and counted only)
FreshEngine(w) ==
    [current_bar |-> AtrWindow - 1, structure |-> StructureInit,
     bullish_obs |-> <<>>, bearish_obs |-> <<>>, ob_heap |-> <<>>,
     candles_buffer |-> [warm |-> w, n |-> AtrWindow - 1, tail |-> <<>>],
     up |-> None, dn |-> None, pivot_highs |-> <<>>, pivot_lows |-> <<>>,
     events |-> <<>>]

\* process_candle of that second instance: the same statements as
\* ProcessCandle, reading and writing the instance s instead of the variables
process_candle(s, c) ==
    LET buf2 == append_and_trim(s.candles_buffer, c)
        atr == calculate_atr(buf2)
    IN IF still_buffering(buf2) \/ IsNone(atr)
       THEN [s EXCEPT !.candles_buffer = buf2, !.events = <<>>,
                      !.current_bar = s.current_bar + 1]
       ELSE LET buf3 == BufSetLastAtr(buf2, atr)
                ca == BufAt(buf3, BufLen(buf3))
                cross == UpdateUpDn(s.up, s.dn, ca)
                e1 == process_market_structure(
                          [ms |-> s.structure, bull |-> s.bullish_obs,
                           bear |-> s.bearish_obs, heap |-> s.ob_heap,
                           events |-> <<>>],
                          buf3, s.current_bar, ca, cross)
                e2 == check_mitigation(e1, s.current_bar, ca)
            IN [current_bar |-> s.current_bar + 1, structure |-> e2.ms,
                bullish_obs |-> e2.bull, bearish_obs |-> e2.bear,
                ob_heap |-> e2.heap, candles_buffer |-> buf3,
                up |-> cross.up, dn |-> cross.dn,
                pivot_highs |-> detect_pivots(buf3, s.current_bar, s.pivot_highs, TRUE),
                pivot_lows |-> detect_pivots(buf3, s.current_bar, s.pivot_lows, FALSE),
                events |-> e2.events]

\* an engine two candles short of the end of its warm-up: AtrWindow - 3
\* candles w buffered and counted
EarlyEngine(w) ==
    [FreshEngine(w) EXCEPT !.current_bar = AtrWindow - 3,
                           !.candles_buffer.n = AtrWindow - 3]

\* an engine whose buffer is one candle short of max_buffer_size: it has been
\* fed MaxBufferSize - 1 candles w.  The first full call of process_candle
\* (candle AtrWindow) leaves STATE 0; on every later candle w the STATE 1
\* down-sweep test holds (low <= choch and close >= choch), so the call only
\* sets dnsweep, choch = low (unchanged) and xloc, and appends the candle
\* with its ATR.
SeasonedEngine(w) ==
    [process_candle(FreshEngine(w), w) EXCEPT
        !.current_bar = MaxBufferSize - 1,
        !.structure.xloc = MaxBufferSize - 2,
        !.structure.dnsweep = TRUE,
        !.candles_buffer.tail = [i \in 1..(MaxBufferSize - AtrWindow) |-> @[1]]]

\* the engine's variables hold the instance s, no candle fed by this run yet
EngineIs(s) ==
    /\ current_bar = s.current_bar
    /\ structure = s.structure
    /\ bullish_obs = s.bullish_obs
    /\ bearish_obs = s.bearish_obs
    /\ ob_heap = s.ob_heap
    /\ candles_buffer = s.candles_buffer
    /\ up = s.up
    /\ dn = s.dn
    /\ pivot_highs = s.pivot_highs
    /\ pivot_lows = s.pivot_lows
    /\ events = s.events
    /\ bars_fed = 0

(* =========================== CandleBuilder ============================ *)

\* tick timestamps: 0 (falsy, so the tick is dropped as incomplete), and one
\* instant inside each of the buckets 0, 60 and 120
TickTimes == {0, 30, 90, 150}

\* tick prices: 0 (not positive) and three levels
TickPrices == {0, 1, 2, 3}

\* _get_candle_start_time
get_candle_start_time(timestamp) ==
    (timestamp \div TimeframeSeconds) * TimeframeSeconds

\* _is_new_candle (cur is the symbol's entry of current_candles, or None)
is_new_candle(cur, timestamp) ==
    IF IsNone(cur) THEN TRUE
    ELSE get_candle_start_time(timestamp) # Get(cur).candle_start

\* _create_new_candle
create_new_candle(timestamp, price) ==
    [timestamp |-> get_candle_start_time(timestamp),
     open |-> price, high |-> price, low |-> price, close |-> price,
     volume |-> 0, tick_count |-> 0,
     candle_start |-> get_candle_start_time(timestamp),
     candle_end |-> get_candle_start_time(timestamp) + TimeframeSeconds]

\* a faulty _update_candle that never lowers the low
update_candle_keeps_low(candle, price) ==
    [candle EXCEPT !.high = Max2(candle.high, price),
                   !.close = price,
                   !.tick_count = candle.tick_count + 1]

\* _update_candle
update_candle(candle, price) ==
    [candle EXCEPT !.high = Max2(candle.high, price),
                   !.low = Min2(candle.low, price),
                   !.close = price,
                   !.tick_count = candle.tick_count + 1]

\* _finalize_candle: the internal tracking fields are dropped
finalize_candle(candle) ==
    [timestamp |-> candle.timestamp, open |-> candle.open, high |-> candle.high,
     low |-> candle.low, close |-> candle.close, volume |-> candle.volume]

\* `all([symbol, price is not None, timestamp])`: the tick has a symbol and a
\* price (tick.get gives None for a missing key); a timestamp of 0 is falsy
\* like a missing one
TickComplete(has_symbol, price, timestamp) ==
    has_symbol /\ ~IsNone(price) /\ timestamp # 0

\* _close_candle: finalize, append to completed_candles, count, call back
CloseCandle(candle) ==
    /\ completed_candles' = Append(completed_candles, finalize_candle(candle))
    /\ candle_events' = Append(candle_events, finalize_candle(candle))

\* process_tick for one symbol; the tick's symbol and price may be missing
ProcessTick ==
    /\ Len(tick_log) < MaxTicks
    /\ \E has_symbol \in BOOLEAN, timestamp \in TickTimes,
          tick_price \in {None} \cup {Some(p) : p \in TickPrices} :
         IF ~TickComplete(has_symbol, tick_price, timestamp) THEN UNCHANGED cbVars
         ELSE \E price \in {Get(tick_price)} :
              /\ IF is_new_candle(current_candle, timestamp)
                 THEN /\ IF IsNone(current_candle)
                         THEN UNCHANGED <<completed_candles, candle_events>>
                         ELSE CloseCandle(Get(current_candle))
                      /\ current_candle' =
                            Some(update_candle(create_new_candle(timestamp, price), price))
                      /\ cb_stats' = [ticks_processed |-> cb_stats.ticks_processed + 1,
                                      candles_completed |->
                                          IF IsNone(current_candle)
                                          THEN cb_stats.candles_completed
                                          ELSE cb_stats.candles_completed + 1]
                 ELSE /\ current_candle' = Some(update_candle(Get(current_candle), price))
                      /\ cb_stats' = [cb_stats EXCEPT !.ticks_processed = @ + 1]
                      /\ UNCHANGED <<completed_candles, candle_events>>
              /\ tick_log' = Append(tick_log, <<"tick", timestamp, price>>)

\* force_close_all
ForceCloseAll ==
    /\ Len(tick_log) < MaxTicks
    /\ IF IsNone(current_candle)
       THEN UNCHANGED <<completed_candles, candle_events, cb_stats>>
       ELSE /\ CloseCandle(Get(current_candle))
            /\ cb_stats' = [cb_stats EXCEPT !.candles_completed = @ + 1]
    /\ current_candle' = None
    /\ tick_log' = Append(tick_log, <<"flush">>)

\* CandleBuilder.__init__
BuilderConstructed ==
    /\ current_candle = None
    /\ completed_candles = <<>>
    /\ candle_events = <<>>
    /\ cb_stats = [ticks_processed |-> 0, candles_completed |-> 0]
    /\ tick_log = <<>>

(* ========================== PositionManager =========================== *)

\* the symbols list handed to __init__
Symbols == {"SOLUSD", "AAVEUSD"}

\* a symbol the account does not track
UntrackedSymbol == "XRPUSD"

\* call arguments
PnlValues == {-2, 3}
FeeValues == {0, 1}
CapitalUsedValues == {50, 150}
UpdateKeys == {"trailing_sl", "remaining_size", "not_a_field"}

\* size of every position opened, and the exit_size of partial exits: part
\* of the position, all of it
PositionSize == 2
ExitSizes == {1, PositionSize}

\* a faulty can_enter_position that does not look for an open position
can_enter_position_ignores_open(symbol, required_capital) ==
    IF symbol \notin Symbols THEN FALSE
    ELSE IF required_capital > 0 /\ capital[symbol] < required_capital THEN FALSE
    ELSE TRUE

\* can_enter_position (the boolean of the returned pair)
can_enter_position(symbol, required_capital) ==
    IF symbol \notin Symbols THEN FALSE
    ELSE IF ~IsNone(positions[symbol]) THEN FALSE
    ELSE IF required_capital > 0 /\ capital[symbol] < required_capital THEN FALSE
    ELSE TRUE

\* Position(...) as open_position constructs it (fields no operation of the
\* manager reads or writes are left out)
NewPosition(direction, size, capital_used) ==
    [direction |-> direction, size |-> size, capital_used |-> capital_used,
     trailing_sl |-> None, partial_exited |-> FALSE,
     partial_exit_price |-> None, remaining_size |-> Some(size)]

\* a faulty credit that forgets the fees
credit_without_fees(cap, symbol, pnl, fees) ==
    [cap EXCEPT ![symbol] = cap[symbol] + pnl]

\* self.capital[symbol] += pnl - fees
credit(cap, symbol, pnl, fees) ==
    [cap EXCEPT ![symbol] = cap[symbol] + pnl - fees]

\* the last call of the manager: its arguments (0 where the call has none)
\* and whether it raised
PmCall(op, symbol, capital_used, exit_size, raised) ==
    [op |-> op, symbol |-> symbol, capital_used |-> capital_used,
     exit_size |-> exit_size, raised |-> raised]

\* open_position: raises ValueError, before anything is written, unless
\* can_enter_position
OpenPosition ==
    /\ pm_calls < MaxPmCalls
    /\ \E symbol \in Symbols \cup {UntrackedSymbol},
          direction \in {"long", "short"},
          capital_used \in CapitalUsedValues :
         IF can_enter_position(symbol, capital_used)
         THEN /\ positions' = [positions EXCEPT
                                 ![symbol] = Some(NewPosition(direction, PositionSize,
                                                              capital_used))]
              /\ pm_calls' = pm_calls + 1
              /\ pm_last' = PmCall("open", symbol, capital_used, 0, FALSE)
              /\ UNCHANGED <<capital, peak_capital, closed_positions, pm_stats,
                             close_credit, partial_credit>>
         ELSE /\ pm_last' = PmCall("open", symbol, capital_used, 0, TRUE)
              /\ UNCHANGED <<capital, peak_capital, positions, closed_positions,
                             pm_stats, close_credit, partial_credit, pm_calls>>

\* setattr(position, key, value) for a key the Position has
set_field(position, key) ==
    IF key = "trailing_sl" THEN [position EXCEPT !.trailing_sl = Some(7)]
    ELSE IF key = "remaining_size" THEN [position EXCEPT !.remaining_size = Some(0)]
    ELSE position

\* update_position(symbol, key=value)
UpdatePosition ==
    /\ pm_calls < MaxPmCalls
    /\ \E symbol \in Symbols \cup {UntrackedSymbol}, key \in UpdateKeys :
         /\ pm_last' = PmCall("update", symbol, 0, 0, FALSE)
         /\ IF symbol \notin Symbols \/ IsNone(positions[symbol])
               \/ set_field(Get(positions[symbol]), key) = Get(positions[symbol])
            THEN UNCHANGED <<capital, peak_capital, positions, closed_positions,
                             pm_stats, close_credit, partial_credit, pm_calls>>
            ELSE /\ positions' = [positions EXCEPT
                                    ![symbol] = Some(set_field(Get(positions[symbol]), key))]
                 /\ pm_calls' = pm_calls + 1
                 /\ UNCHANGED <<capital, peak_capital, closed_positions, pm_stats,
                                close_credit, partial_credit>>

\* position.remaining_size = position.size - exit_size
remaining_after_exit(position, exit_size) == position.size - exit_size

\* partial_exit_position
PartialExitPosition ==
    /\ pm_calls < MaxPmCalls
    /\ \E symbol \in Symbols \cup {UntrackedSymbol}, exit_size \in ExitSizes,
          pnl \in PnlValues, fees \in FeeValues :
         /\ pm_last' = PmCall("partial_exit", symbol, 0, exit_size, FALSE)
         /\ IF symbol \notin Symbols \/ IsNone(positions[symbol])
            THEN UNCHANGED <<capital, peak_capital, positions, closed_positions,
                             pm_stats, close_credit, partial_credit, pm_calls>>
            ELSE /\ positions' = [positions EXCEPT
                                    ![symbol] = Some([Get(positions[symbol]) EXCEPT
                                        !.partial_exited = TRUE,
                                        !.partial_exit_price = Some(10),
                                        !.remaining_size =
                                            Some(remaining_after_exit(
                                                     Get(positions[symbol]), exit_size))])]
                 /\ capital' = credit(capital, symbol, pnl, fees)
                 /\ partial_credit' = [partial_credit EXCEPT ![symbol] = @ + pnl - fees]
                 /\ pm_calls' = pm_calls + 1
                 /\ UNCHANGED <<peak_capital, closed_positions, pm_stats, close_credit>>

\* self.stats after a close
StatsAfterClose(st, symbol, pnl, fees) ==
    [total_trades |-> st.total_trades + 1,
     winning_trades |-> st.winning_trades + (IF pnl > 0 THEN 1 ELSE 0),
     losing_trades |-> st.losing_trades + (IF pnl > 0 THEN 0 ELSE 1),
     total_pnl |-> st.total_pnl + pnl,
     total_fees |-> st.total_fees + fees,
     by_symbol |-> [st.by_symbol EXCEPT ![symbol] =
         [trades |-> @.trades + 1,
          wins |-> @.wins + (IF pnl > 0 THEN 1 ELSE 0),
          losses |-> @.losses + (IF pnl > 0 THEN 0 ELSE 1),
          pnl |-> @.pnl + pnl]]]

\* the closed-position record (timestamps and pnl_pct left out)
ClosedRecord(symbol, position, exit_reason, pnl, fees, capital_after) ==
    [symbol |-> symbol, position |-> position, exit_reason |-> exit_reason,
     pnl |-> pnl, fees |-> fees, capital_after |-> capital_after]

\* close_position
ClosePosition ==
    /\ pm_calls < MaxPmCalls
    /\ \E symbol \in Symbols \cup {UntrackedSymbol},
          pnl \in PnlValues, fees \in FeeValues :
         IF symbol \notin Symbols \/ IsNone(positions[symbol])
         THEN /\ pm_last' = PmCall("close", symbol, 0, 0, FALSE)
              /\ UNCHANGED <<capital, peak_capital, positions, closed_positions,
                             pm_stats, close_credit, partial_credit, pm_calls>>
         ELSE /\ pm_last' = PmCall("close", symbol, 0, 0, FALSE)
              /\ capital' = credit(capital, symbol, pnl, fees)
              /\ peak_capital' = [peak_capital EXCEPT ![symbol] =
                                    IF capital'[symbol] > @ THEN capital'[symbol] ELSE @]
              /\ pm_stats' = StatsAfterClose(pm_stats, symbol, pnl, fees)
              /\ closed_positions' = Append(closed_positions,
                      ClosedRecord(symbol, Get(positions[symbol]), "take_profit",
                                   pnl, fees, capital'[symbol]))
              /\ positions' = [positions EXCEPT ![symbol] = None]
              /\ close_credit' = [close_credit EXCEPT ![symbol] = @ + pnl - fees]
              /\ pm_calls' = pm_calls + 1
              /\ UNCHANGED partial_credit

\* PositionManager.__init__ with initial_capital_per_symbol = InitialCapital
ManagerConstructed ==
    /\ capital = [sym \in Symbols |-> InitialCapital]
    /\ peak_capital = [sym \in Symbols |-> InitialCapital]
    /\ positions = [sym \in Symbols |-> None]
    /\ closed_positions = <<>>
    /\ pm_stats = [total_trades |-> 0, winning_trades |-> 0, losing_trades |-> 0,
                   total_pnl |-> 0, total_fees |-> 0,
                   by_symbol |-> [sym \in Symbols |->
                       [trades |-> 0, wins |-> 0, losses |-> 0, pnl |-> 0]]]
    /\ close_credit = [sym \in Symbols |-> 0]
    /\ partial_credit = [sym \in Symbols |-> 0]
    /\ pm_calls = 0
    /\ pm_last = PmCall("", "", 0, 0, FALSE)

\* json.dump / json.load of an Optional number: None is written as null
json_optional(x) ==
    IF IsNone(x) THEN [null |-> TRUE, number |-> 0]
    ELSE [null |-> FALSE, number |-> Get(x)]

python_optional(j) == IF j.null THEN None ELSE Some(j.number)

\* Position.to_dict (asdict), as json.dump writes it
Position_to_dict(p) ==
    [direction |-> p.direction, size |-> p.size, capital_used |-> p.capital_used,
     trailing_sl |-> json_optional(p.trailing_sl),
     partial_exited |-> p.partial_exited,
     partial_exit_price |-> json_optional(p.partial_exit_price),
     remaining_size |-> json_optional(p.remaining_size)]

\* a faulty from_dict that leaves the tracking fields at the dataclass defaults
Position_from_dict_defaults(data) ==
    [direction |-> data.direction, size |-> data.size,
     capital_used |-> data.capital_used,
     trailing_sl |-> None, partial_exited |-> FALSE,
     partial_exit_price |-> None, remaining_size |-> None]

\* Position.from_dict: Position(**data) on what json.load read
Position_from_dict(data) ==
    [direction |-> data.direction, size |-> data.size,
     capital_used |-> data.capital_used,
     trailing_sl |-> python_optional(data.trailing_sl),
     partial_exited |-> data.partial_exited,
     partial_exit_price |-> python_optional(data.partial_exit_price),
     remaining_size |-> python_optional(data.remaining_size)]

\* PositionManager.save_state: the content of positions_<account>.json. The
\* 'positions' object has one entry per open position; closed_positions is
\* not written.
pm_save_state(pm) ==
    [capital |-> pm.capital, peak_capital |-> pm.peak_capital,
     positions |-> [sym \in {x \in Symbols : ~IsNone(pm.positions[x])} |->
                       Position_to_dict(Get(pm.positions[sym]))],
     stats |-> pm.stats]

\* PositionManager.load_state of manager pm from the file content
pm_load_state(pm, state) ==
    [pm EXCEPT !.capital = state.capital,
               !.peak_capital = state.peak_capital,
               !.stats = state.stats,
               !.positions = [sym \in Symbols |->
                   IF sym \in DOMAIN state.positions
                   THEN Some(Position_from_dict(state.positions[sym]))
                   ELSE None]]

\* PositionManager(account, symbols, InitialCapital) as a value
NewManager ==
    [capital |-> [sym \in Symbols |-> InitialCapital],
     peak_capital |-> [sym \in Symbols |-> InitialCapital],
     positions |-> [sym \in Symbols |-> None],
     closed_positions |-> <<>>,
     stats |-> [total_trades |-> 0, winning_trades |-> 0, losing_trades |-> 0,
                total_pnl |-> 0, total_fees |-> 0,
                by_symbol |-> [sym \in Symbols |->
                    [trades |-> 0, wins |-> 0, losses |-> 0, pnl |-> 0]]]]

(* ============================ OrderManager ============================ *)

\* exchange order ids handed to add_order; nothing stops a caller from
\* handing in an id again
OrderIds == {1, 2}

\* the symbol orders are placed on, and the one registered with the OB manager
RegisteredSymbol == "SOLUSD"

\* ob_id arguments
ObIds == {"OB_A", "OB_B"}

\* size arguments
OrderSizes == {1, 2}

\* fill_size arguments of mark_filled: None is a full fill, 3 overfills
FillSizes == {None, Some(1), Some(3)}

\* fill_price argument (also average_fill_price of an exchange payload)
FillPrice == 10

\* exchange_status arguments of update_from_exchange
ExchangeStatuses == {"open", "filled", "closed", "cancelled", "rejected"}

\* exchange_data.get('size'): absent, or the exchange's size
ExchangeSizes == {None, Some(1)}

\* Order.__post_init__
post_init(order) ==
    IF order.remaining_size = 0
    THEN [order EXCEPT !.remaining_size = order.size]
    ELSE order

\* Order(...) as add_order constructs it; internal_id is the counter value
\* that _generate_internal_id formats into "<account>_ORDER_<n>"
NewOrder(order_id, internal_id, symbol, size, ob_id) ==
    post_init([order_id |-> order_id, internal_id |-> internal_id,
               symbol |-> symbol, size |-> size, ob_id |-> ob_id,
               status |-> "pending", filled_size |-> 0, remaining_size |-> 0,
               filled_price |-> None, cancel_reason |-> None,
               exchange_status |-> None, exchange_message |-> None])

\* self.orders is a dict: a sequence of Order values in insertion order, at
\* most one per order_id.  Position of order_id's entry, 0 when absent
IndexOf(os, order_id) ==
    IF \E i \in DOMAIN os : os[i].order_id = order_id
    THEN CHOOSE i \in DOMAIN os : os[i].order_id = order_id
    ELSE 0

\* self.orders.get(order_id)
get_order(os, order_id) ==
    IF IndexOf(os, order_id) = 0 THEN None ELSE Some(os[IndexOf(os, order_id)])

\* self.orders[order_id] = order (an existing key keeps its position), and
\* the in-place mutation of the Order object held under that key
StoreOrder(os, order) ==
    IF IndexOf(os, order.order_id) = 0
    THEN Append(os, order)
    ELSE [os EXCEPT ![IndexOf(os, order.order_id)] = order]

\* del self.orders[order_id]
DeleteOrder(os, order_id) == SelectSeq(os, LAMBDA o : o.order_id # order_id)

\* add_order's stats update
AddedStats(stats, symbol) ==
    [stats EXCEPT
       !.total_orders = @ + 1,
       !.by_symbol =
           IF symbol \in DOMAIN @
           THEN [@ EXCEPT ![symbol].orders = @ + 1]
           ELSE @ @@ (symbol :> [orders |-> 1, filled |-> 0, cancelled |-> 0])]

\* the manager as the methods below transform it: om is
\* [orders, completed_orders, stats, ret], ret being the call's return value

\* _complete_order without the removal from the active dict
complete_order_keeps_active(om, order) ==
    [om EXCEPT !.orders = StoreOrder(@, order),
               !.completed_orders = Append(@, order)]

\* _complete_order
complete_order(om, order) ==
    [om EXCEPT !.orders = DeleteOrder(@, order.order_id),
               !.completed_orders = Append(@, order)]

\* mark_filled's update of the sizes that forgets remaining_size
ApplyFill_keeps_remaining(order, fill_price, fs) ==
    [order EXCEPT !.filled_size = @ + fs,
                  !.filled_price = Some(fill_price)]

\* mark_filled: "Update order"
ApplyFill(order, fill_price, fs) ==
    [order EXCEPT !.filled_size = @ + fs,
                  !.remaining_size = @ - fs,
                  !.filled_price = Some(fill_price)]

\* mark_filled: "Update status"
FillStatus(order) ==
    [order EXCEPT !.status = IF order.remaining_size = 0 THEN "filled" ELSE "partial"]

\* mark_filled: "Move to completed if fully filled"; otherwise the mutated
\* Order stays in the dict
StoreFilled(om, order) ==
    IF order.status = "filled"
    THEN complete_order(om, order)
    ELSE [om EXCEPT !.orders = StoreOrder(@, order)]

\* mark_filled: "Update stats" (on every call that found the order), and
\* the return of the order
MarkFilledDone(om, order) ==
    [StoreFilled(om, order) EXCEPT !.stats.filled_orders = @ + 1,
                                   !.stats.by_symbol[order.symbol].filled = @ + 1,
                                   !.ret = Some(order)]

\* mark_filled once the order is found: fill_size None means the remaining size
MarkFilledFound(om, order, fill_price, fill_size) ==
    MarkFilledDone(om,
        FillStatus(ApplyFill(order, fill_price,
            IF IsNone(fill_size) THEN order.remaining_size ELSE Get(fill_size))))

mark_filled(om, order_id, fill_price, fill_size) ==
    IF IndexOf(om.orders, order_id) = 0
    THEN [om EXCEPT !.ret = None]
    ELSE MarkFilledFound(om, Get(get_order(om.orders, order_id)),
                         fill_price, fill_size)

\* cancel_order: "Update order"
Cancelled(order, reason) ==
    [order EXCEPT !.status = "cancelled", !.cancel_reason = Some(reason)]

\* cancel_order: "Move to completed", "Update stats", return True
CancelDone(om, order) ==
    [complete_order(om, order) EXCEPT !.stats.cancelled_orders = @ + 1,
                                      !.stats.by_symbol[order.symbol].cancelled = @ + 1,
                                      !.ret = TRUE]

cancel_order(om, order_id, reason) ==
    IF IndexOf(om.orders, order_id) = 0
    THEN [om EXCEPT !.ret = FALSE]
    ELSE CancelDone(om, Cancelled(Get(get_order(om.orders, order_id)), reason))

get_orders_by_ob(os, ob_id) == SelectSeq(os, LAMBDA o : o.ob_id = ob_id)

\* cancel_orders_by_ob: pending_orders = [o for o in orders if o.status == PENDING]
PendingOf(list) == SelectSeq(list, LAMBDA o : o.status = "pending")

RECURSIVE CancelEach(_, _, _, _, _)

\* cancel_orders_by_ob: the count after one cancel_order call of the loop
CancelCounted(om, list, i, reason, count) ==
    CancelEach(om, list, i + 1, reason, IF om.ret THEN count + 1 ELSE count)

\* cancel_orders_by_ob: the loop; returns cancelled_count
CancelEach(om, list, i, reason, count) ==
    IF i > Len(list)
    THEN [om EXCEPT !.ret = count]
    ELSE CancelCounted(cancel_order(om, list[i].order_id, reason),
                       list, i, reason, count)

cancel_orders_by_ob(om, ob_id, reason) ==
    CancelEach(om, PendingOf(get_orders_by_ob(om.orders, ob_id)), 1, reason, 0)

\* mark_rejected: "Update order"
Rejected(order, rejection_reason) ==
    [order EXCEPT !.status = "rejected",
                  !.exchange_message = Some(rejection_reason)]

RejectDone(om, order) ==
    [complete_order(om, order) EXCEPT !.stats.rejected_orders = @ + 1,
                                      !.ret = Some(order)]

mark_rejected(om, order_id, rejection_reason) ==
    IF IndexOf(om.orders, order_id) = 0
    THEN [om EXCEPT !.ret = None]
    ELSE RejectDone(om, Rejected(Get(get_order(om.orders, order_id)),
                                 rejection_reason))

\* update_from_exchange: "Map exchange status to our status"; a fill is of
\* int(exchange_data.get('size', order.size)) contracts
ExchangeDispatch(om, order, exchange_status, exchange_size) ==
    IF exchange_status \in {"filled", "closed"}
    THEN mark_filled(om, order.order_id, FillPrice,
                     IF IsNone(exchange_size) THEN Some(order.size) ELSE exchange_size)
    ELSE IF exchange_status = "cancelled"
    THEN cancel_order(om, order.order_id, "exchange_cancelled")
    ELSE IF exchange_status = "rejected"
    THEN mark_rejected(om, order.order_id, "Unknown")
    ELSE om

\* update_from_exchange returns the Order object it looked up, as the
\* transition left it: still in the dict, or the newest completed order
ExchangeReturn(om, order_id) ==
    [om EXCEPT !.ret =
        IF IndexOf(om.orders, order_id) # 0
        THEN get_order(om.orders, order_id)
        ELSE Some(om.completed_orders[Len(om.completed_orders)])]

\* update_from_exchange once the order is found: order.exchange_status is
\* set first, in place
ExchangeFound(om, order, exchange_status, exchange_size) ==
    ExchangeReturn(
        ExchangeDispatch(
            [om EXCEPT !.orders =
                StoreOrder(@, [order EXCEPT !.exchange_status = Some(exchange_status)])],
            order, exchange_status, exchange_size),
        order.order_id)

update_from_exchange(om, order_id, exchange_status, exchange_size) ==
    IF IndexOf(om.orders, order_id) = 0
    THEN [om EXCEPT !.ret = None]
    ELSE ExchangeFound(om, Get(get_order(om.orders, order_id)),
                       exchange_status, exchange_size)

\* the manager's state before a call
OmState ==
    [orders |-> orders, completed_orders |-> completed_orders,
     stats |-> om_stats, ret |-> None]

\* the record of a call: the method, its order_id / ob_id / reason arguments
\* (0 and "" where the method has none) and its return value, a bool
\* (cancel_order), a count (cancel_orders_by_ob) or an Order or None
Call(op, order_id, ob_id, reason) ==
    [op |-> op, order_id |-> order_id, ob_id |-> ob_id, reason |-> reason,
     ret_ok |-> FALSE, ret_count |-> 0, ret_order |-> None]

\* the manager's state after a call that returned om, and the call's record
Returned(om, call) ==
    /\ orders' = om.orders
    /\ completed_orders' = om.completed_orders
    /\ om_stats' = om.stats
    /\ last_call' = call
    /\ om_calls' = om_calls + 1
    /\ UNCHANGED next_internal_id

AddOrder ==
    /\ om_calls < MaxOmCalls
    /\ \E order_id \in OrderIds, size \in OrderSizes, ob_id \in ObIds :
         \E order \in {NewOrder(order_id, next_internal_id, RegisteredSymbol, size, ob_id)} :
            /\ orders' = StoreOrder(orders, order)
            /\ next_internal_id' = next_internal_id + 1
            /\ om_stats' = AddedStats(om_stats, RegisteredSymbol)
            /\ last_call' = [Call("add_order", order_id, ob_id, "")
                                EXCEPT !.ret_order = Some(order)]
            /\ om_calls' = om_calls + 1
            /\ UNCHANGED completed_orders

MarkFilled ==
    /\ om_calls < MaxOmCalls
    /\ \E order_id \in OrderIds, fill_size \in FillSizes :
         \E om \in {mark_filled(OmState, order_id, FillPrice, fill_size)} :
            Returned(om, [Call("mark_filled", order_id, "", "")
                             EXCEPT !.ret_order = om.ret])

CancelOrder ==
    /\ om_calls < MaxOmCalls
    /\ \E order_id \in OrderIds :
         \E om \in {cancel_order(OmState, order_id, "manual")} :
            Returned(om, [Call("cancel_order", order_id, "", "manual")
                             EXCEPT !.ret_ok = om.ret])

CancelOrdersByOb ==
    /\ om_calls < MaxOmCalls
    /\ \E ob_id \in ObIds :
         \E om \in {cancel_orders_by_ob(OmState, ob_id, "ob_invalidated")} :
            Returned(om, [Call("cancel_orders_by_ob", 0, ob_id, "ob_invalidated")
                             EXCEPT !.ret_count = om.ret])

MarkRejected ==
    /\ om_calls < MaxOmCalls
    /\ \E order_id \in OrderIds :
         \E om \in {mark_rejected(OmState, order_id, "Unknown")} :
            Returned(om, [Call("mark_rejected", order_id, "", "Unknown")
                             EXCEPT !.ret_order = om.ret])

UpdateFromExchange ==
    /\ om_calls < MaxOmCalls
    /\ \E order_id \in OrderIds, exchange_status \in ExchangeStatuses,
          exchange_size \in ExchangeSizes :
         \E om \in {update_from_exchange(OmState, order_id, exchange_status,
                                         exchange_size)} :
            Returned(om, [Call("update_from_exchange", order_id, "", "")
                             EXCEPT !.ret_order = om.ret])

\* OrderManager.__init__
OrdersConstructed ==
    /\ orders = <<>>
    /\ completed_orders = <<>>
    /\ next_internal_id = 1
    /\ om_stats = [total_orders |-> 0, filled_orders |-> 0, cancelled_orders |-> 0,
                   rejected_orders |-> 0, by_symbol |-> <<>>]
    /\ last_call = Call("", 0, "", "")
    /\ om_calls = 0

\* Order.to_dict (asdict, the status enum replaced by its value), as
\* json.dump writes it
Order_to_dict(o) ==
    [order_id |-> o.order_id, internal_id |-> o.internal_id, symbol |-> o.symbol,
     size |-> o.size, ob_id |-> o.ob_id, status |-> o.status,
     filled_size |-> o.filled_size, remaining_size |-> o.remaining_size,
     filled_price |-> json_optional(o.filled_price),
     cancel_reason |-> json_optional(o.cancel_reason),
     exchange_status |-> json_optional(o.exchange_status),
     exchange_message |-> json_optional(o.exchange_message)]

\* Order.from_dict: Order(**data) on what json.load read, which runs
\* __post_init__ on the loaded fields
Order_from_dict(data) ==
    post_init([order_id |-> data.order_id, internal_id |-> data.internal_id,
               symbol |-> data.symbol, size |-> data.size, ob_id |-> data.ob_id,
               status |-> data.status, filled_size |-> data.filled_size,
               remaining_size |-> data.remaining_size,
               filled_price |-> python_optional(data.filled_price),
               cancel_reason |-> python_optional(data.cancel_reason),
               exchange_status |-> python_optional(data.exchange_status),
               exchange_message |-> python_optional(data.exchange_message)])

\* OrderManager.save_state: the content of orders_<account>.json ('orders' in
\* the dict's order, under the order ids)
om_save_state(om) ==
    [orders |-> [i \in DOMAIN om.orders |-> Order_to_dict(om.orders[i])],
     completed_orders |->
         [i \in DOMAIN om.completed_orders |-> Order_to_dict(om.completed_orders[i])],
     stats |-> om.stats,
     next_internal_id |-> om.next_internal_id]

\* OrderManager.load_state in a manager om from the file content: every key
\* save_state wrote is present, so each field is replaced
om_load_state(om, state) ==
    [om EXCEPT
       !.orders = [i \in DOMAIN state.orders |-> Order_from_dict(state.orders[i])],
       !.completed_orders =
           [i \in DOMAIN state.completed_orders |->
               Order_from_dict(state.completed_orders[i])],
       !.stats = state.stats,
       !.next_internal_id = state.next_internal_id]

\* OrderManager(account) as a value
NewOrderManager ==
    [orders |-> <<>>, completed_orders |-> <<>>,
     stats |-> [total_orders |-> 0, filled_orders |-> 0, cancelled_orders |-> 0,
                rejected_orders |-> 0, by_symbol |-> <<>>],
     next_internal_id |-> 1]

(* ============================== OBManager ============================= *)

\* price arguments of check_ob_touch
TouchPrices == {0, 4, 8, 12}

\* penetration_pct arguments, in percent: 0, the default 20 %, and 100 %
TouchPcts == {0, 20, 100}
Percent == 100

\* OB shapes <<top, btm, isbb>> the engine's lists hold in the touch
\* queries: thick, thin, and zero-height, every range a multiple of 5 so
\* that ob_range * penetration_pct is an integer
TouchShapes == { <<10, 0, FALSE>>, <<5, 0, TRUE>>, <<10, 10, FALSE>> }

\* an un-invalidated OrderBlock of the given shape
TouchOb(is_bullish, shape) ==
    [bull |-> is_bullish, top |-> shape[1], btm |-> shape[2],
     avg |-> (shape[1] + shape[2]) \div 2,
     loc |-> 0,
     dir |-> IF is_bullish THEN -1 ELSE 1,
     isbb |-> shape[3], bbloc |-> IF shape[3] THEN Some(0) ELSE None,
     invalidated |-> FALSE, invalidation_bar |-> None]

\* ProgressiveSMC.get_active_obs behind OBManager.get_active_obs: an
\* unregistered symbol has no OBs
get_active_obs(symbol) ==
    IF symbol # RegisteredSymbol
    THEN [bullish |-> <<>>, bearish |-> <<>>]
    ELSE [bullish |-> SelectSeq(bullish_obs, LAMBDA id : ~ob_heap[id].invalidated),
          bearish |-> SelectSeq(bearish_obs, LAMBDA id : ~ob_heap[id].invalidated)]

\* OBManager.on_candle_close for a symbol that was never registered: logged,
\* nothing forwarded, nothing saved
OnCandleCloseUnregistered ==
    /\ UntrackedSymbol \notin {RegisteredSymbol}
    /\ UNCHANGED vars

\* ProgressiveSMC.get_all_obs: copies of the two lists
get_all_obs ==
    [bullish |-> bullish_obs, bearish |-> bearish_obs]

\* check_ob_touch: entry_level of a bullish OB
EntryBullish(ob, pct) == ob.top - ((ob.top - ob.btm) * pct) \div Percent

\* check_ob_touch: entry_level of a bearish OB
EntryBearish(ob, pct) == ob.btm + ((ob.top - ob.btm) * pct) \div Percent

\* the bullish test with a strict comparison
TouchesBullish_strict(price, entry_level) == price < entry_level

\* check_ob_touch: "if price <= entry_level"
TouchesBullish(price, entry_level) == price <= entry_level

\* check_ob_touch: "if price >= entry_level"
TouchesBearish(price, entry_level) == price >= entry_level

\* the dict check_ob_touch returns; 'ob' is the OrderBlock object, by identity
TouchDict(direction, id, entry_level, price, pct) ==
    [direction |-> direction, ob |-> id, ob_type |-> get_type(ob_heap[id]),
     entry_level |-> entry_level,
     ob_top |-> ob_heap[id].top, ob_bottom |-> ob_heap[id].btm,
     penetration_pct |-> pct, price_in_zone |-> price]

RECURSIVE ScanBearish(_, _, _, _)
ScanBearish(list, i, price, pct) ==
    IF i > Len(list) THEN None
    ELSE IF TouchesBearish(price, EntryBearish(ob_heap[list[i]], pct))
    THEN Some(TouchDict("bearish", list[i],
                        EntryBearish(ob_heap[list[i]], pct), price, pct))
    ELSE ScanBearish(list, i + 1, price, pct)

RECURSIVE ScanBullish(_, _, _, _)
ScanBullish(active, i, price, pct) ==
    IF i > Len(active.bullish) THEN ScanBearish(active.bearish, 1, price, pct)
    ELSE IF TouchesBullish(price, EntryBullish(ob_heap[active.bullish[i]], pct))
    THEN Some(TouchDict("bullish", active.bullish[i],
                        EntryBullish(ob_heap[active.bullish[i]], pct), price, pct))
    ELSE ScanBullish(active, i + 1, price, pct)

check_ob_touch(symbol, price, pct) ==
    ScanBullish(get_active_obs(symbol), 1, price, pct)

\* one check_ob_touch call; the engine is only read
CheckObTouch ==
    \E symbol \in {RegisteredSymbol, UntrackedSymbol}, price \in TouchPrices,
       pct \in TouchPcts :
        touch' = Some([symbol |-> symbol, price |-> price, pct |-> pct,
                       result |-> check_ob_touch(symbol, price, pct)])

\* an engine whose lists hold up to MaxTouchObs un-invalidated OBs of each
\* direction: ob_heap holds the bullish ones, then the bearish ones, and
\* each list names its OBs newest first, as insert(0, ob) leaves it
EngineWithObs ==
    /\ EngineFields
    /\ EngineIdle
    /\ \E nb \in 0 .. MaxTouchObs, nr \in 0 .. MaxTouchObs :
         \E bulls \in [1 .. nb -> TouchShapes], bears \in [1 .. nr -> TouchShapes] :
            /\ ob_heap = [i \in 1 .. nb |-> TouchOb(TRUE, bulls[i])]
                             \o [i \in 1 .. nr |-> TouchOb(FALSE, bears[i])]
            /\ bullish_obs = [i \in 1 .. nb |-> nb + 1 - i]
            /\ bearish_obs = [i \in 1 .. nr |-> nb + nr + 1 - i]

(* ========================== StatePersistence ========================== *)

\* the three snapshot files of __init__
StateFiles == {"ob_state.json", "positions.json", "capital.json"}

\* the key save_ob_state / save_positions / save_capital store the payload
\* under, and the matching load reads
state_key(file) ==
    IF file = "ob_state.json" THEN "ob_state"
    ELSE IF file = "positions.json" THEN "positions" ELSE "capital"

\* payloads handed to the save calls: dicts of JSON-native values with string
\* keys, given as the list of their items; the first is the empty dict
Payloads == {<<>>, <<1>>, <<1, 2>>}

\* the text json.dump writes for the dict {'timestamp': now, key: payload};
\* a text cut short at any point is not valid JSON
json_text(key, payload, complete) ==
    [valid |-> complete, key |-> key, payload |-> payload]

\* a faulty load that looks the payload up under the file name
payload_of_by_file_name(file, text) ==
    IF text.key = file THEN Some(text.payload) ELSE None

\* load_*: "if state and key in state: return state[key]", else None
payload_of(file, text) ==
    IF text.key = state_key(file) THEN Some(text.payload) ELSE None

\* a call of the manager: what was called, where _atomic_write stands, and
\* how the call ended ("returned", "raised", or "crashed" when the process
\* died inside it)
SpCall(op, file, payload, pc, outcome, ret_ok, ret_val) ==
    [op |-> op, file |-> file, payload |-> payload, pc |-> pc,
     outcome |-> outcome, ret_ok |-> ret_ok, ret_val |-> ret_val]

\* save_ob_state / save_positions / save_capital entered: the state dict is
\* built and _atomic_write is about to create its temp file
SaveBegin ==
    /\ sp_call.pc = "idle"
    /\ sp_calls < MaxSpCalls
    /\ sp_calls' = sp_calls + 1
    /\ \E file \in StateFiles, payload \in Payloads :
         sp_call' = SpCall("save", file, payload, "mkstemp", "", FALSE, None)
    /\ UNCHANGED <<files, temp, leftover_temps, corrupt_copies>>

\* the except branch of _atomic_write: remove the temp file, return False
WriteFailed ==
    /\ temp' = None
    /\ sp_call' = [sp_call EXCEPT !.pc = "idle", !.outcome = "returned",
                                  !.ret_ok = FALSE]
    /\ UNCHANGED <<files, leftover_temps, corrupt_copies, sp_calls>>

\* tempfile.mkstemp in the target's directory.  When it raises, temp_path was
\* never bound and the except branch's os.path.exists(temp_path) raises
\* UnboundLocalError out of the call.
Mkstemp ==
    /\ sp_call.pc = "mkstemp"
    /\ \/ /\ temp' = Some(json_text(state_key(sp_call.file), sp_call.payload, FALSE))
          /\ sp_call' = [sp_call EXCEPT !.pc = "write"]
       \/ /\ temp' = None
          /\ sp_call' = [sp_call EXCEPT !.pc = "idle", !.outcome = "raised"]
    /\ UNCHANGED <<files, leftover_temps, corrupt_copies, sp_calls>>

\* json.dump and f.flush into the temp file
WriteTemp ==
    /\ sp_call.pc = "write"
    /\ \/ /\ temp' = Some(json_text(state_key(sp_call.file), sp_call.payload, TRUE))
          /\ sp_call' = [sp_call EXCEPT !.pc = "fsync"]
          /\ UNCHANGED <<files, leftover_temps, corrupt_copies, sp_calls>>
       \/ WriteFailed

\* os.fsync
Fsync ==
    /\ sp_call.pc = "fsync"
    /\ \/ /\ sp_call' = [sp_call EXCEPT !.pc = "move"]
          /\ UNCHANGED <<files, temp, leftover_temps, corrupt_copies, sp_calls>>
       \/ WriteFailed

\* shutil.move(temp_path, filepath): a rename within one directory; then
\* _atomic_write and the save call return True
MoveTemp ==
    /\ sp_call.pc = "move"
    /\ \/ /\ files' = [files EXCEPT ![sp_call.file] = temp]
          /\ temp' = None
          /\ sp_call' = [sp_call EXCEPT !.pc = "idle", !.outcome = "returned",
                                        !.ret_ok = TRUE]
          /\ UNCHANGED <<leftover_temps, corrupt_copies, sp_calls>>
       \/ WriteFailed

\* the process dies inside _atomic_write: no statement of it runs any more,
\* the temp file (if created) stays in the directory
Crash ==
    /\ sp_call.pc \in {"mkstemp", "write", "fsync", "move"}
    /\ sp_call' = [sp_call EXCEPT !.pc = "idle", !.outcome = "crashed"]
    /\ leftover_temps' = leftover_temps + (IF IsNone(temp) THEN 0 ELSE 1)
    /\ temp' = None
    /\ UNCHANGED <<files, corrupt_copies, sp_calls>>

\* _safe_load: None when the file is missing; on JSONDecodeError the file is
\* copied (shutil.copy) to <name>.corrupt.<timestamp> and None is returned
safe_load(file) ==
    IF IsNone(files[file]) THEN [state |-> None, copied |-> FALSE]
    ELSE IF ~Get(files[file]).valid THEN [state |-> None, copied |-> TRUE]
    ELSE [state |-> files[file], copied |-> FALSE]

\* load_ob_state / load_positions / load_capital
LoadState ==
    /\ sp_call.pc = "idle"
    /\ sp_calls < MaxSpCalls
    /\ sp_calls' = sp_calls + 1
    /\ \E file \in StateFiles :
       \E r \in {safe_load(file)} :
         /\ sp_call' = SpCall("load", file, <<>>, "idle", "returned", FALSE,
                              IF IsNone(r.state) THEN None
                              ELSE payload_of(file, Get(r.state)))
         /\ corrupt_copies' = corrupt_copies + (IF r.copied THEN 1 ELSE 0)
    /\ UNCHANGED <<files, temp, leftover_temps>>

\* clear_all_state: unlink each of the three files that exists
ClearAllState ==
    /\ sp_call.pc = "idle"
    /\ sp_calls < MaxSpCalls
    /\ sp_calls' = sp_calls + 1
    /\ files' = [f \in StateFiles |-> None]
    /\ sp_call' = SpCall("clear", "", <<>>, "idle", "returned", FALSE, None)
    /\ UNCHANGED <<temp, leftover_temps, corrupt_copies>>

\* outside the manager: a snapshot file is damaged on disk (cut short or
\* overwritten with something that is not JSON), the case _safe_load's
\* JSONDecodeError branch is written for
DamageFile ==
    /\ sp_call.pc = "idle"
    /\ sp_calls < MaxSpCalls
    /\ sp_calls' = sp_calls + 1
    /\ \E file \in StateFiles :
         /\ ~IsNone(files[file])
         /\ Get(files[file]).valid
         /\ files' = [files EXCEPT ![file] = Some([Get(@) EXCEPT !.valid = FALSE])]
    /\ UNCHANGED <<temp, leftover_temps, corrupt_copies, sp_call>>

\* StatePersistence.__init__ on an empty data directory
PersistenceConstructed ==
    /\ files = [f \in StateFiles |-> None]
    /\ temp = None
    /\ leftover_temps = 0
    /\ corrupt_copies = 0
    /\ sp_call = SpCall("", "", <<>>, "idle", "", FALSE, None)
    /\ sp_calls = 0

(* ========================== DeltaWebSocket ============================ *)

\* self.max_reconnect_attempts, self.reconnect_delay, and the cap on the delay
MaxReconnectAttempts == 10
ReconnectDelay == 5
MaxDelay == 300

\* the message kinds _handle_message tells apart: a mark_price update, any
\* other well-formed message, and text that json.loads rejects
MessageKinds == {"mark_price", "subscriptions", "invalid_json"}

\* a faulty backoff: the delay is not capped
Backoff_uncapped(attempts) == ReconnectDelay * 2 ^ (attempts - 1)

\* _reconnect_loop: delay = reconnect_delay * 2 ** (attempts - 1), at most 300
Backoff(attempts) == Min2(ReconnectDelay * 2 ^ (attempts - 1), MaxDelay)

\* DeltaWebSocket.__init__, and no task created yet
ClientConstructed ==
    ws = [is_running |-> FALSE, connected |-> FALSE, subscribed |-> FALSE,
          reconnect_attempts |-> 0, websocket |-> "none", link |-> FALSE,
          last_message_time |-> "none", listen |-> "none", pc |-> "none",
          delay |-> 0, tries |-> 0, ticks |-> 0, step |-> "init"]

\* connect() succeeded: a new connection in self.websocket (which: the one
\* start() made, or one the reconnect loop made)
Connected(w, which) ==
    [w EXCEPT !.websocket = which, !.link = TRUE, !.connected = TRUE,
              !.reconnect_attempts = 0, !.tries = 0]

\* start(): connect and subscribe; on success the two tasks are created, the
\* listener iterating over the connection start() made; on a failure
\* is_running is cleared and start() returns
Start ==
    /\ ~ws.is_running
    /\ ws.listen = "none" /\ ws.pc = "none"
    /\ \E conn \in BOOLEAN, sub \in BOOLEAN :
          ws' = IF ~conn
                THEN [ws EXCEPT !.connected = FALSE, !.step = "start: connect failed"]
                ELSE IF ~sub
                THEN [Connected(ws, "first") EXCEPT
                         !.subscribed = FALSE, !.link = FALSE,
                         !.step = "start: subscribe failed"]
                ELSE [Connected(ws, "first") EXCEPT
                         !.is_running = TRUE, !.subscribed = TRUE,
                         !.listen = "listening", !.pc = "check",
                         !.step = "start: tasks created"]

\* _listen reads one message from its connection: _handle_message, and for a
\* complete mark_price message _process_tick and on_tick
ListenMessage ==
    /\ ws.listen = "listening" /\ ws.link
    /\ ws.ticks < MaxWsTicks
    /\ \E kind \in MessageKinds :
          ws' = IF kind = "invalid_json"
                THEN [ws EXCEPT !.step = "message: not parsed"]
                ELSE IF kind = "mark_price"
                THEN [ws EXCEPT !.last_message_time = "fresh",
                                !.ticks = @ + 1, !.step = "message: tick"]
                ELSE [ws EXCEPT !.last_message_time = "fresh",
                                !.step = "message: other"]

\* the server or the network ends the connection self.websocket holds
ConnectionLost ==
    /\ ws.link
    /\ ws.is_running
    /\ ws' = [ws EXCEPT !.link = FALSE, !.step = "connection lost"]

\* _listen ends with its connection: ConnectionClosed is raised (connected
\* and subscribed are cleared), or the iteration just stops (a close with
\* code 1000 or 1001), and the task returns either way
ListenEnds ==
    /\ ws.listen = "listening" /\ ~ws.link
    /\ \E raised \in BOOLEAN :
          ws' = IF raised
                THEN [ws EXCEPT !.listen = "done", !.connected = FALSE,
                                !.subscribed = FALSE, !.step = "listen: closed"]
                ELSE [ws EXCEPT !.listen = "done", !.step = "listen: ended"]

\* sixty seconds pass without a message being handled
Quiet ==
    /\ ws.last_message_time = "fresh"
    /\ ws' = [ws EXCEPT !.last_message_time = "stale", !.step = "quiet"]

\* _reconnect_loop, one pass of the while loop up to its first sleep:
\* leave the loop when is_running is false; when not connected count the
\* attempt and either give up or start the backoff sleep; when connected
\* drop a connection that has been quiet for more than 60 s
LoopCheck ==
    /\ ws.pc = "check"
    /\ ws' = IF ~ws.is_running
             THEN [ws EXCEPT !.pc = "done", !.step = "loop: ended"]
             ELSE IF ~ws.connected
             THEN (IF ws.reconnect_attempts + 1 > MaxReconnectAttempts
                   THEN [ws EXCEPT !.reconnect_attempts = @ + 1,
                                   !.is_running = FALSE, !.pc = "done",
                                   !.step = "loop: gave up"]
                   ELSE [ws EXCEPT !.reconnect_attempts = @ + 1,
                                   !.delay = Backoff(ws.reconnect_attempts + 1),
                                   !.pc = "backoff", !.step = "loop: backoff"])
             ELSE IF ws.last_message_time = "stale"
             THEN [ws EXCEPT !.connected = FALSE, !.subscribed = FALSE,
                             !.link = FALSE, !.pc = "pause",
                             !.step = "loop: stale"]
             ELSE [ws EXCEPT !.pc = "pause", !.step = "loop: alive"]

\* _reconnect_loop after sleep(delay): connect(), and subscribe() when it
\* succeeded.  The listener has ended by then if its connection was closed.
ReconnectAttempt ==
    /\ ws.pc = "backoff"
    /\ ws.listen # "listening"
    /\ \E conn \in BOOLEAN, sub \in BOOLEAN :
          ws' = IF ~conn
                THEN [ws EXCEPT !.connected = FALSE, !.tries = @ + 1,
                                !.pc = "pause", !.step = "attempt: connect failed"]
                ELSE IF ~sub
                THEN [Connected(ws, "later") EXCEPT
                         !.subscribed = FALSE, !.link = FALSE, !.pc = "pause",
                         !.step = "attempt: subscribe failed"]
                ELSE [Connected(ws, "later") EXCEPT
                         !.subscribed = TRUE, !.pc = "pause",
                         !.step = "attempt: reconnected"]

\* _reconnect_loop: sleep(5) is over, back to the loop test
LoopPause ==
    /\ ws.pc = "pause"
    /\ ws' = [ws EXCEPT !.pc = "check", !.step = "loop: pause over"]

\* stop()
Stop ==
    /\ ws.is_running
    /\ ws' = [ws EXCEPT !.is_running = FALSE, !.connected = FALSE,
                        !.subscribed = FALSE, !.link = FALSE, !.step = "stop"]

(* ========================== specifications =========================== *)

\* the components other than the engine, as constructed, and no
\* check_ob_touch call yet
OthersConstructed ==
    /\ BuilderConstructed /\ ManagerConstructed /\ OrdersConstructed
    /\ touch = None
    /\ PersistenceConstructed
    /\ ClientConstructed

\* every component as constructed, nothing fed to any of them
AllConstructed == EngineConstructed /\ EngineIdle /\ OthersConstructed

\* the engine alone: a warmed-up ProgressiveSMC fed candles
InitSMC == WarmedUp /\ OthersConstructed

NextSMC == ProcessCandle /\ UNCHANGED <<cbVars, pmVars, omVars, touchVars, spVars, wsVars>>

SpecSMC == InitSMC /\ [][NextSMC]_vars

\* the engine alone, late in its warm-up or with an almost full buffer
InitRun ==
    /\ \E w \in WarmCandles : \E s \in {EarlyEngine(w), SeasonedEngine(w)} : EngineIs(s)
    /\ OthersConstructed

SpecRun == InitRun /\ [][NextSMC]_vars

\* the engine alone, four candles of LeadCandles after SeasonedEngine, in
\* STATE 2 with a break-of-structure level pending: every such engine, each
\* computed by process_candle from the four candles that lead to it
InitTrend ==
    /\ \E w \in WarmCandles :
       \E c1 \in LeadCandles : \E s1 \in {process_candle(SeasonedEngine(w), c1)} :
       \E c2 \in LeadCandles : \E s2 \in {process_candle(s1, c2)} :
       \E c3 \in LeadCandles : \E s3 \in {process_candle(s2, c3)} :
       \E c4 \in LeadCandles : \E s4 \in {process_candle(s3, c4)} :
          /\ s4.structure.start = 2
          /\ ~IsNone(s4.structure.bos)
          /\ EngineIs(s4)
    /\ OthersConstructed

NextTrend == ProcessTrendCandle /\ UNCHANGED <<cbVars, pmVars, omVars, touchVars, spVars, wsVars>>

SpecTrend == InitTrend /\ [][NextTrend]_vars

\* the engine fed candle dicts of any shape, for any symbol
NextIntake ==
    \/ ProcessAnyCandle /\ UNCHANGED <<cbVars, pmVars, omVars, touchVars, spVars, wsVars>>
    \/ OnCandleCloseUnregistered

SpecIntake == InitSMC /\ [][NextIntake]_vars

\* the candle builder alone: ticks and flushes for one symbol
NextCandle ==
    \/ ProcessTick /\ UNCHANGED <<smcVars, pmVars, omVars, touchVars, spVars, wsVars>>
    \/ ForceCloseAll /\ UNCHANGED <<smcVars, pmVars, omVars, touchVars, spVars, wsVars>>

SpecCandle == AllConstructed /\ [][NextCandle]_vars

\* the position manager alone
NextPos ==
    \/ OpenPosition /\ UNCHANGED <<smcVars, cbVars, omVars, touchVars, spVars, wsVars>>
    \/ UpdatePosition /\ UNCHANGED <<smcVars, cbVars, omVars, touchVars, spVars, wsVars>>
    \/ PartialExitPosition /\ UNCHANGED <<smcVars, cbVars, omVars, touchVars, spVars, wsVars>>
    \/ ClosePosition /\ UNCHANGED <<smcVars, cbVars, omVars, touchVars, spVars, wsVars>>

SpecPos == AllConstructed /\ [][NextPos]_vars

\* the order manager alone
NextOrders ==
    \/ AddOrder /\ UNCHANGED <<smcVars, cbVars, pmVars, touchVars, spVars, wsVars>>
    \/ MarkFilled /\ UNCHANGED <<smcVars, cbVars, pmVars, touchVars, spVars, wsVars>>
    \/ CancelOrder /\ UNCHANGED <<smcVars, cbVars, pmVars, touchVars, spVars, wsVars>>
    \/ CancelOrdersByOb /\ UNCHANGED <<smcVars, cbVars, pmVars, touchVars, spVars, wsVars>>
    \/ MarkRejected /\ UNCHANGED <<smcVars, cbVars, pmVars, touchVars, spVars, wsVars>>
    \/ UpdateFromExchange /\ UNCHANGED <<smcVars, cbVars, pmVars, touchVars, spVars, wsVars>>

SpecOrders == AllConstructed /\ [][NextOrders]_vars

\* check_ob_touch queries against an engine that holds OBs
InitTouch == EngineWithObs /\ OthersConstructed

NextTouch == CheckObTouch /\ UNCHANGED <<smcVars, cbVars, pmVars, omVars, spVars, wsVars>>

SpecTouch == InitTouch /\ [][NextTouch]_vars

\* the state manager alone: saves (step by step), loads, clears, and damage
\* done to the files from outside
NextPersist ==
    \/ SaveBegin /\ UNCHANGED <<smcVars, cbVars, pmVars, omVars, touchVars, wsVars>>
    \/ Mkstemp /\ UNCHANGED <<smcVars, cbVars, pmVars, omVars, touchVars, wsVars>>
    \/ WriteTemp /\ UNCHANGED <<smcVars, cbVars, pmVars, omVars, touchVars, wsVars>>
    \/ Fsync /\ UNCHANGED <<smcVars, cbVars, pmVars, omVars, touchVars, wsVars>>
    \/ MoveTemp /\ UNCHANGED <<smcVars, cbVars, pmVars, omVars, touchVars, wsVars>>
    \/ Crash /\ UNCHANGED <<smcVars, cbVars, pmVars, omVars, touchVars, wsVars>>
    \/ LoadState /\ UNCHANGED <<smcVars, cbVars, pmVars, omVars, touchVars, wsVars>>
    \/ ClearAllState /\ UNCHANGED <<smcVars, cbVars, pmVars, omVars, touchVars, wsVars>>
    \/ DamageFile /\ UNCHANGED <<smcVars, cbVars, pmVars, omVars, touchVars, wsVars>>

SpecPersist == AllConstructed /\ [][NextPersist]_vars

\* the websocket client alone: one run of start() and of the tasks it creates
NextWs ==
    \/ Start /\ UNCHANGED <<smcVars, cbVars, pmVars, omVars, touchVars, spVars>>
    \/ ListenMessage /\ UNCHANGED <<smcVars, cbVars, pmVars, omVars, touchVars, spVars>>
    \/ ConnectionLost /\ UNCHANGED <<smcVars, cbVars, pmVars, omVars, touchVars, spVars>>
    \/ ListenEnds /\ UNCHANGED <<smcVars, cbVars, pmVars, omVars, touchVars, spVars>>
    \/ Quiet /\ UNCHANGED <<smcVars, cbVars, pmVars, omVars, touchVars, spVars>>
    \/ LoopCheck /\ UNCHANGED <<smcVars, cbVars, pmVars, omVars, touchVars, spVars>>
    \/ ReconnectAttempt /\ UNCHANGED <<smcVars, cbVars, pmVars, omVars, touchVars, spVars>>
    \/ LoopPause /\ UNCHANGED <<smcVars, cbVars, pmVars, omVars, touchVars, spVars>>
    \/ Stop /\ UNCHANGED <<smcVars, cbVars, pmVars, omVars, touchVars, spVars>>

SpecWs == AllConstructed /\ [][NextWs]_vars

\* the event loop runs a task that is ready: the loop test, the wake-ups
\* from the two sleeps and the end of the listener are not postponed forever
SpecWsFair ==
    /\ SpecWs
    /\ WF_vars(LoopCheck /\ UNCHANGED <<smcVars, cbVars, pmVars, omVars, touchVars, spVars>>)
    /\ WF_vars(ReconnectAttempt /\ UNCHANGED <<smcVars, cbVars, pmVars, omVars, touchVars, spVars>>)
    /\ WF_vars(LoopPause /\ UNCHANGED <<smcVars, cbVars, pmVars, omVars, touchVars, spVars>>)
    /\ WF_vars(ListenEnds /\ UNCHANGED <<smcVars, cbVars, pmVars, omVars, touchVars, spVars>>)

(* -------------------- properties of the engine ----------------------- *)

Range(f) == { f[i] : i \in DOMAIN f }

\* the candle handed to the process_candle call that produced buffer buf
LastCandle(buf) == BufAt(buf, BufLen(buf))

\* position of a status on the path fresh -> breaker -> invalidated
StatusRank(ob) ==
    IF get_type(ob) = "fresh" THEN 0
    ELSE IF get_type(ob) = "breaker" THEN 1 ELSE 2

\* C1: every order block the engine has created has top > btm, whatever
\* well-formed candles (flat bars included) it was fed.
C1_TopAboveBtm ==
    \A id \in DOMAIN ob_heap : ob_heap[id].top > ob_heap[id].btm

\* C2: an OB's status only moves along fresh -> breaker -> invalidated.  One
\* process_candle call never moves an OB backwards and advances it by at most
\* one step; an OB created by the call is fresh or a breaker when it returns.
C2_StatusForwardOneStep ==
    [][ /\ \A id \in DOMAIN ob_heap :
              /\ id \in DOMAIN ob_heap'
              /\ StatusRank(ob_heap'[id]) - StatusRank(ob_heap[id]) \in {0, 1}
        /\ \A id \in DOMAIN ob_heap' \ DOMAIN ob_heap :
              StatusRank(ob_heap'[id]) \in {0, 1} ]_vars

\* an OB with top > btm went through both steps, on different bars
C2_Witness ==
    \E id \in DOMAIN ob_heap :
        /\ ob_heap[id].top > ob_heap[id].btm
        /\ ob_heap[id].invalidated
        /\ Get(ob_heap[id].invalidation_bar) > Get(ob_heap[id].bbloc)

\* the OB as it stood when the call's mitigation pass reached it: an OB
\* constructed by the call is fresh
ObBefore(id) ==
    IF id \in DOMAIN ob_heap THEN ob_heap[id]
    ELSE [ob_heap'[id] EXCEPT !.isbb = FALSE, !.bbloc = None]

CloseRuleStep(id) ==
    LET pre == ObBefore(id)
        post == ob_heap'[id]
        c == LastCandle(candles_buffer')
        lo == Min2(c.open, c.close)
        hi == Max2(c.open, c.close)
        dirn == IF pre.bull THEN "bullish" ELSE "bearish"
        active == Range(IF pre.bull THEN bullish_obs' ELSE bearish_obs')
        toBreaker == get_type(pre) = "fresh"
                       /\ (IF pre.bull THEN lo < pre.btm ELSE hi > pre.top)
        toInvalidated == get_type(pre) = "breaker"
                           /\ (IF pre.bull THEN hi > pre.top ELSE lo < pre.btm)
    IN /\ toBreaker =>
            /\ post = [pre EXCEPT !.isbb = TRUE, !.bbloc = Some(current_bar)]
            /\ <<"breaker", id, dirn>> \in Range(events')
            /\ id \in active
       /\ toInvalidated =>
            /\ post = [pre EXCEPT !.invalidated = TRUE,
                                  !.invalidation_bar = Some(current_bar)]
            /\ <<"invalidated", id, dirn>> \in Range(events')
            /\ id \notin active
       /\ (~toBreaker /\ ~toInvalidated) =>
            /\ post = pre
            /\ <<"breaker", id, dirn>> \notin Range(events')
            /\ <<"invalidated", id, dirn>> \notin Range(events')
            /\ (id \in active) = ~pre.invalidated

\* C3: under the Close rule a process_candle call turns a fresh bullish OB
\* into a breaker (bbloc = the current bar, breaker event) iff
\* min(open, close) < btm, and a bullish breaker into an invalidated OB (event,
\* removed from the active list) iff max(open, close) > top; bearish OBs
\* mirror this; every other OB is left as it was.
C3_CloseRule ==
    [][ \A id \in DOMAIN ob_heap' : CloseRuleStep(id) ]_vars

\* the last call invalidated a bearish breaker with top > btm
C3_Witness ==
    \E i \in DOMAIN events :
        /\ events[i][1] = "invalidated"
        /\ events[i][3] = "bearish"
        /\ ob_heap[events[i][2]].top > ob_heap[events[i][2]].btm

(* ----------------- properties of the candle builder ------------------ *)

IsTick(h) == h[1] = "tick"

\* the buckets floor(t/T)*T that received an accepted tick
BucketsSeen ==
    { get_candle_start_time(tick_log[i][2]) :
        i \in { j \in DOMAIN tick_log : IsTick(tick_log[j]) } }

\* no process_tick call was accepted after a force_close_all
NoTickAfterFlush ==
    \A i, j \in DOMAIN tick_log :
        (i < j /\ ~IsTick(tick_log[i])) => ~IsTick(tick_log[j])

\* the accepted ticks arrived with non-decreasing timestamps
InOrder ==
    \A i, j \in DOMAIN tick_log :
        (i < j /\ IsTick(tick_log[i]) /\ IsTick(tick_log[j]))
            => tick_log[i][2] <= tick_log[j][2]

\* the prices of the accepted ticks of bucket b, in arrival order
BucketTicks(b) ==
    SelectSeq(tick_log, LAMBDA h : IsTick(h) /\ get_candle_start_time(h[2]) = b)

SeqMax(sq) == CHOOSE m \in Range(sq) : \A x \in Range(sq) : x <= m
SeqMin(sq) == CHOOSE m \in Range(sq) : \A x \in Range(sq) : x >= m

\* C4: for ticks in any timestamp order, the number of on_candle_closed
\* calls is the number of distinct buckets that received a tick, minus one
\* while a candle is open, and exactly that number once force_close_all has
\* run; no bucket is emitted twice.
C4_OneEmissionPerBucket ==
    (NoTickAfterFlush /\ BucketsSeen # {}) =>
        /\ Len(candle_events) =
              Cardinality(BucketsSeen) - (IF IsNone(current_candle) THEN 0 ELSE 1)
        /\ \A i, j \in DOMAIN candle_events :
              i # j => candle_events[i].timestamp # candle_events[j].timestamp

\* what the ticks of bucket b make of a candle
MatchesBucket(candle, b) ==
    /\ BucketTicks(b) # <<>>
    /\ candle.timestamp = b
    /\ \A i \in DOMAIN BucketTicks(b) :
          candle.timestamp = (BucketTicks(b)[i][2] \div TimeframeSeconds) * TimeframeSeconds
    /\ candle.open = BucketTicks(b)[1][3]
    /\ candle.close = BucketTicks(b)[Len(BucketTicks(b))][3]
    /\ candle.high = SeqMax([i \in DOMAIN BucketTicks(b) |-> BucketTicks(b)[i][3]])
    /\ candle.low = SeqMin([i \in DOMAIN BucketTicks(b) |-> BucketTicks(b)[i][3]])

WellFormedCandle(candle) ==
    /\ candle.low <= Min2(candle.open, candle.close)
    /\ candle.high >= Max2(candle.open, candle.close)
    /\ candle.high >= candle.low
    /\ candle.volume >= 0

\* C5: for ticks with non-decreasing timestamps, every candle handed to
\* on_candle_closed has timestamp = its bucket, open = the bucket's first
\* price, close = its last, high = its max and low = its min, and is
\* well-formed; the open candle's tick_count is the number of its ticks, and
\* it closes with the values it holds.
C5_CandleSummarisesBucket ==
    (InOrder /\ NoTickAfterFlush) =>
        /\ \A i \in DOMAIN candle_events :
              /\ MatchesBucket(candle_events[i], candle_events[i].timestamp)
              /\ WellFormedCandle(candle_events[i])
        /\ ~IsNone(current_candle) =>
              /\ MatchesBucket(Get(current_candle), Get(current_candle).candle_start)
              /\ Get(current_candle).tick_count =
                    Len(BucketTicks(Get(current_candle).candle_start))

\* in-order ticks closed a candle whose high and low both differ from its
\* open and close
C5_Witness ==
    /\ InOrder /\ NoTickAfterFlush
    /\ \E i \in DOMAIN candle_events :
          /\ candle_events[i].high > Max2(candle_events[i].open, candle_events[i].close)
          /\ candle_events[i].low < Min2(candle_events[i].open, candle_events[i].close)

\* C27: a malformed tick (symbol, price or timestamp missing, or a price
\* that is not positive) is dropped: process_tick changes no open candle and
\* no completed-candle list and emits nothing.  tick_log holds the ticks
\* process_tick acted on, so none of them has a non-positive price.
C27_MalformedTickDropped ==
    \A i \in DOMAIN tick_log :
        IsTick(tick_log[i]) => tick_log[i][2] # 0 /\ tick_log[i][3] > 0

(* ---------------- properties of the websocket client ----------------- *)

\* C35: reconnect supervisor.  While the connection is down, the k-th
\* consecutive reconnect attempt (k - 1 failed attempts since the last
\* successful connect) waits min(5 * 2^(k-1), 300) seconds before
\* connecting; there is never an eleventh consecutive attempt: after 10
\* failed attempts no attempt is made any more, the supervisor gives up
\* (is_running becomes false) and, once it has left its loop with
\* is_running false, it stays out of it; and a successful connect leaves
\* the attempt counter at 0.
C35_Supervisor ==
    /\ [](ws.pc = "backoff" => ws.delay = Min2(5 * 2 ^ ws.tries, 300))
    /\ [](ws.tries <= 10)
    /\ [][ws.tries = 10 => ws'.tries = 10]_vars
    /\ (ws.tries = 10 ~> ~ws.is_running)
    /\ [][ws.pc = "done" => ws'.pc = "done"]_vars
    /\ [](ws.step \in {"start: subscribe failed", "start: tasks created",
                       "attempt: subscribe failed", "attempt: reconnected"}
             => ws.reconnect_attempts = 0)

\* the supervisor gave up after ten failed attempts, the last one made after
\* the capped delay
C35_Witness ==
    /\ ws.step = "loop: gave up"
    /\ ws.tries = 10
    /\ ws.delay = 300
    /\ ~ws.is_running
    /\ ws.pc = "done"

\* C36: recovery after a drop.  When a reconnect attempt has connected and
\* resubscribed, a task is reading the new connection, so that its
\* mark_price messages reach on_tick: the client is never running and
\* connected with no task listening on the connection it holds; and a
\* client that is running and connected but not subscribed is eventually
\* subscribed or stopped (the supervisor retries until then or gives up).
C36_Recovery ==
    /\ [](ws.step = "attempt: reconnected"
             => ws.listen = "listening" /\ ws.websocket = "first")
    /\ [](ws.is_running /\ ws.connected
             => ws.listen = "listening" /\ ws.websocket = "first")
    /\ ((ws.is_running /\ ws.connected /\ ~ws.subscribed)
            ~> (ws.subscribed \/ ~ws.is_running))

(* ---------------- properties of the position manager ---------------- *)

RECURSIVE SumOver(_, _)
SumOver(f, S) ==
    IF S = {} THEN 0
    ELSE LET x == CHOOSE y \in S : TRUE IN f[x] + SumOver(f, S \ {x})

\* C6: the per-symbol capital sums to the initial capital (per symbol, times
\* the number of symbols) plus pnl - fees over all closes plus pnl - fees over
\* all partial exits; symbol by symbol, capital is the initial capital plus
\* that symbol's credits, so opening and updating change no entry.
C6_CapitalAccounting ==
    /\ SumOver(capital, Symbols) =
          InitialCapital * Cardinality(Symbols)
            + SumOver(close_credit, Symbols) + SumOver(partial_credit, Symbols)
    /\ \A sym \in Symbols :
          capital[sym] = InitialCapital + close_credit[sym] + partial_credit[sym]

\* a position was partially exited and then closed, fees paid both times,
\* and another position is open
C6_Witness ==
    \E sym \in Symbols :
        /\ \E i \in DOMAIN closed_positions :
              /\ closed_positions[i].symbol = sym
              /\ closed_positions[i].position.partial_exited
              /\ closed_positions[i].fees > 0
        /\ partial_credit[sym] # 0
        /\ \E other \in Symbols : ~IsNone(positions[other])

\* the manager as it stands, as a value
ThisManager ==
    [capital |-> capital, peak_capital |-> peak_capital, positions |-> positions,
     closed_positions |-> closed_positions, stats |-> pm_stats]

\* C15: position persistence round trip.  A fresh manager for the same
\* symbols that loads what save_state wrote holds the same open positions
\* (remaining_size and partial_exited included), the same capital and peak
\* capital per symbol and the same statistics, in every state the manager
\* can reach, those after an open and a partial exit among them.
C15_PositionRoundTrip ==
    \E loaded \in {pm_load_state(NewManager, pm_save_state(ThisManager))} :
        /\ loaded.positions = positions
        /\ loaded.capital = capital
        /\ loaded.peak_capital = peak_capital
        /\ loaded.stats = pm_stats

\* a position was opened and partially exited at a profit, and another was
\* closed before
C15_Witness ==
    /\ \E sym \in Symbols :
          /\ ~IsNone(positions[sym])
          /\ Get(positions[sym]).partial_exited
          /\ Get(positions[sym]).remaining_size = Some(1)
          /\ capital[sym] > InitialCapital
    /\ pm_stats.total_trades > 0

C18_RemainingWithinSize ==
    \A sym \in Symbols :
        ~IsNone(positions[sym]) =>
            /\ ~IsNone(Get(positions[sym]).remaining_size)
            /\ 0 < Get(Get(positions[sym]).remaining_size)
            /\ Get(Get(positions[sym]).remaining_size) <= Get(positions[sym]).size

\* C19: partial_exit_position on a live position takes exit_size off the
\* remaining_size the position had before the call, sets partial_exited and
\* credits pnl - fees to the symbol's capital; without a live position it
\* changes nothing.
C19_PartialExitShrinks ==
    [][ pm_last'.op = "partial_exit" =>
          IF pm_last'.symbol \in Symbols /\ ~IsNone(positions[pm_last'.symbol])
          THEN /\ ~IsNone(positions'[pm_last'.symbol])
               /\ Get(positions'[pm_last'.symbol]).remaining_size =
                     Some(Get(Get(positions[pm_last'.symbol]).remaining_size)
                            - pm_last'.exit_size)
               /\ Get(positions'[pm_last'.symbol]).partial_exited
               /\ capital'[pm_last'.symbol] - capital[pm_last'.symbol] =
                     partial_credit'[pm_last'.symbol] - partial_credit[pm_last'.symbol]
          ELSE UNCHANGED <<positions, capital, peak_capital, pm_stats,
                           closed_positions>> ]_vars

(* ----------------- properties of the order manager -------------------- *)

\* C7: every order in the active set has filled_size + remaining_size = size,
\* whatever add_order, mark_filled (any fill_size, overfills included),
\* cancel_order, cancel_orders_by_ob, mark_rejected and update_from_exchange
\* calls came before.
C7_SizesAddUp ==
    \A i \in DOMAIN orders :
        orders[i].filled_size + orders[i].remaining_size = orders[i].size

\* an active order was filled beyond its size by an exchange update (its
\* remaining_size is negative) while another order is active
C7_Witness ==
    /\ \E i \in DOMAIN orders :
          /\ orders[i].remaining_size < 0
          /\ orders[i].filled_size > orders[i].size
          /\ ~IsNone(orders[i].exchange_status)
    /\ Len(orders) = 2

Terminal == {"filled", "cancelled", "rejected"}

InternalIds(os) == { os[i].internal_id : i \in DOMAIN os }

OrderIdsOf(os) == { os[i].order_id : i \in DOMAIN os }

\* this step is a call of one of the methods that take an order id and act
\* on an existing order
IdCallStep ==
    /\ om_calls' = om_calls + 1
    /\ last_call'.op \in {"mark_filled", "cancel_order", "mark_rejected",
                          "update_from_exchange"}

\* history is append-only and its entries never change; what a step appends
\* is an order that was active, is now filled, cancelled or rejected, and has
\* left the active set; no active order is filled, cancelled or rejected; an
\* order leaves the active set only into history (or by add_order replacing
\* the entry under its id)
HistoryStep ==
    /\ Len(completed_orders') >= Len(completed_orders)
    /\ SubSeq(completed_orders', 1, Len(completed_orders)) = completed_orders
    /\ \A j \in (Len(completed_orders) + 1) .. Len(completed_orders') :
          /\ completed_orders'[j].status \in Terminal
          /\ completed_orders'[j].internal_id \in InternalIds(orders)
          /\ completed_orders'[j].internal_id \notin InternalIds(orders')
    /\ \A i \in DOMAIN orders' : orders'[i].status \in {"pending", "partial"}
    /\ \A i \in DOMAIN orders :
          orders[i].internal_id \notin InternalIds(orders') =>
             \/ \E j \in (Len(completed_orders) + 1) .. Len(completed_orders') :
                   completed_orders'[j].internal_id = orders[i].internal_id
             \/ /\ last_call'.op = "add_order"
                /\ last_call'.order_id = orders[i].order_id

\* cancel_order returns True only for an active order, which is pending or
\* partial, and that order is then the newest entry of history, cancelled
CancelStep ==
    (/\ om_calls' = om_calls + 1
     /\ last_call'.op = "cancel_order"
     /\ last_call'.ret_ok) =>
        \E i \in DOMAIN orders :
            /\ orders[i].order_id = last_call'.order_id
            /\ orders[i].status \in {"pending", "partial"}
            /\ completed_orders'[Len(completed_orders')] =
                  [orders[i] EXCEPT !.status = "cancelled",
                                    !.cancel_reason = Some(last_call'.reason)]

\* the call changed nothing and reported that it found no order
NothingDone ==
    /\ orders' = orders
    /\ completed_orders' = completed_orders
    /\ om_stats' = om_stats
    /\ ~last_call'.ret_ok
    /\ IsNone(last_call'.ret_order)

\* a call with the id of a completed order that no add_order has registered
\* again since
RetiredIdStep ==
    (/\ IdCallStep
     /\ last_call'.order_id \in OrderIdsOf(completed_orders)
     /\ last_call'.order_id \notin OrderIdsOf(orders)) => NothingDone

\* a call with the id of a completed order
CompletedIdStep ==
    (/\ IdCallStep
     /\ last_call'.order_id \in OrderIdsOf(completed_orders)) => NothingDone

\* C8 as stated: an order that is filled, cancelled or rejected leaves the
\* active set for history and never changes; every later mark_filled,
\* cancel_order, mark_rejected or update_from_exchange call with its id
\* changes nothing (cancel_order returns False); cancel_order succeeds only
\* for a pending or partial order.
C8_CompletedIdIsDead ==
    [][HistoryStep /\ CancelStep /\ CompletedIdStep]_vars

\* C8, amended: the same, the calls that change nothing being those with the
\* id of a completed order that add_order has not registered again; the
\* completed order's record in history stays as it is in every case.
C8_CompletedIsFinal ==
    [][HistoryStep /\ CancelStep /\ RetiredIdStep]_vars

\* cancel_order has just returned False for the id of a filled order that
\* is not active, while another order is active
C8_Witness ==
    /\ last_call.op = "cancel_order"
    /\ ~last_call.ret_ok
    /\ \E j \in DOMAIN completed_orders :
          /\ completed_orders[j].order_id = last_call.order_id
          /\ completed_orders[j].status = "filled"
    /\ last_call.order_id \notin OrderIdsOf(orders)
    /\ orders # <<>>

\* the active orders cancel_orders_by_ob(ob_id, ...) is to cancel
ObTargets(ob_id) ==
    { i \in DOMAIN orders :
        /\ orders[i].ob_id = ob_id
        /\ orders[i].status \in {"pending", "partial"} }

CancelByObStep ==
    (/\ om_calls' = om_calls + 1
     /\ last_call'.op = "cancel_orders_by_ob") =>
        /\ \A i \in ObTargets(last_call'.ob_id) :
              /\ orders[i].internal_id \notin InternalIds(orders')
              /\ \E j \in (Len(completed_orders) + 1) .. Len(completed_orders') :
                    completed_orders'[j] =
                       [orders[i] EXCEPT !.status = "cancelled",
                                         !.cancel_reason = Some(last_call'.reason)]
        /\ last_call'.ret_count = Cardinality(ObTargets(last_call'.ob_id))
        /\ om_stats'.cancelled_orders =
              om_stats.cancelled_orders + Cardinality(ObTargets(last_call'.ob_id))
        /\ \A i \in DOMAIN orders :
              orders[i].ob_id # last_call'.ob_id =>
                 \E k \in DOMAIN orders' : orders'[k] = orders[i]

\* C9: cancel_orders_by_ob(X, reason) moves every active order of OB X that
\* is pending or partial to cancelled with cancel_reason = reason, returns
\* their number, adds that number to the cancelled_orders statistic, and
\* leaves the orders of every other OB as they are.
C9_CancelsPendingAndPartial == [][CancelByObStep]_vars

\* the order manager as it stands, as a value
ThisOrderManager ==
    [orders |-> orders, completed_orders |-> completed_orders,
     stats |-> om_stats, next_internal_id |-> next_internal_id]

\* C14: order persistence round trip.  A fresh manager that loads what
\* save_state wrote holds the same active orders, the same completed orders
\* (status, filled_size, remaining_size and every other field), the same
\* statistics and the same next_internal_id.
C14_OrderRoundTrip ==
    om_load_state(NewOrderManager, om_save_state(ThisOrderManager)) = ThisOrderManager

\* the order with the given internal id, wherever the manager keeps it
OrderNow(os, done, internal_id) ==
    { os[i] : i \in { j \in DOMAIN os : os[j].internal_id = internal_id } }
      \cup { done[i] : i \in { j \in DOMAIN done : done[j].internal_id = internal_id } }

\* pending before partial before the final statuses
StatusOrder(status) ==
    IF status = "pending" THEN 0 ELSE IF status = "partial" THEN 1 ELSE 2

\* C20: statuses only move forward from pending, with filled, cancelled,
\* rejected and expired final, and a partial order moves to filled or
\* cancelled only: no call takes it to rejected, expired or back to pending.
C20_StatusTransitions ==
    [][ \A i \in DOMAIN orders :
          \A after \in OrderNow(orders', completed_orders', orders[i].internal_id) :
             /\ StatusOrder(after.status) >= StatusOrder(orders[i].status)
             /\ orders[i].status = "partial" =>
                   after.status \in {"partial", "filled", "cancelled"} ]_vars

\* C21: update_from_exchange on an active order (pending or partial) maps the
\* exchange status to the transition: 'closed' or 'filled' leaves the order
\* filled with remaining_size 0 and in completed history; 'cancelled' leaves
\* it cancelled and completed; 'rejected' leaves it rejected and completed;
\* 'open' leaves it active with status, filled_size and remaining_size as
\* they were.
C21_ExchangeMapping ==
    [][ (/\ om_calls' = om_calls + 1
         /\ last_call'.op = "update_from_exchange"
         /\ IndexOf(orders, last_call'.order_id) # 0) =>
          \E before \in {orders[IndexOf(orders, last_call'.order_id)]} :
          \E after \in {Get(last_call'.ret_order)} :
          \E completed \in {/\ IndexOf(orders', before.order_id) = 0
                            /\ Len(completed_orders') = Len(completed_orders) + 1
                            /\ completed_orders'[Len(completed_orders')] = after} :
             /\ after.exchange_status \in {Some("closed"), Some("filled")} =>
                   after.status = "filled" /\ after.remaining_size = 0 /\ completed
             /\ after.exchange_status = Some("cancelled") =>
                   after.status = "cancelled" /\ completed
             /\ after.exchange_status = Some("rejected") =>
                   after.status = "rejected" /\ completed
             /\ after.exchange_status = Some("open") =>
                   /\ IndexOf(orders', before.order_id) # 0
                   /\ orders'[IndexOf(orders', before.order_id)] = after
                   /\ after.status = before.status
                   /\ after.filled_size = before.filled_size
                   /\ after.remaining_size = before.remaining_size ]_vars

(* --------------------- properties of the touch query ------------------ *)

\* price lies in a bullish OB's penetration zone: price <= top - (top-btm)*pct
InBullishZone(ob, price, pct) ==
    price * Percent <= ob.top * Percent - (ob.top - ob.btm) * pct

\* price lies in a bearish OB's penetration zone: price >= btm + (top-btm)*pct
InBearishZone(ob, price, pct) ==
    price * Percent >= ob.btm * Percent + (ob.top - ob.btm) * pct

BullishMatches(q) ==
    { i \in DOMAIN get_active_obs(q.symbol).bullish :
        InBullishZone(ob_heap[get_active_obs(q.symbol).bullish[i]], q.price, q.pct) }

BearishMatches(q) ==
    { i \in DOMAIN get_active_obs(q.symbol).bearish :
        InBearishZone(ob_heap[get_active_obs(q.symbol).bearish[i]], q.price, q.pct) }

SetMin(S) == CHOOSE x \in S : \A y \in S : x <= y

\* the answer names the first bullish match
FirstBullish(q, r) ==
    /\ r.direction = "bullish"
    /\ r.ob = get_active_obs(q.symbol).bullish[SetMin(BullishMatches(q))]
    /\ r.entry_level * Percent =
          ob_heap[r.ob].top * Percent - (ob_heap[r.ob].top - ob_heap[r.ob].btm) * q.pct
    /\ InBullishZone(ob_heap[r.ob], q.price, q.pct)

\* the answer names the first bearish match
FirstBearish(q, r) ==
    /\ r.direction = "bearish"
    /\ r.ob = get_active_obs(q.symbol).bearish[SetMin(BearishMatches(q))]
    /\ r.entry_level * Percent =
          ob_heap[r.ob].btm * Percent + (ob_heap[r.ob].top - ob_heap[r.ob].btm) * q.pct
    /\ InBearishZone(ob_heap[r.ob], q.price, q.pct)

TouchAnswer(q) ==
    /\ IsNone(q.result) <=> (BullishMatches(q) = {} /\ BearishMatches(q) = {})
    /\ ~IsNone(q.result) =>
          IF BullishMatches(q) # {}
          THEN FirstBullish(q, Get(q.result))
          ELSE FirstBearish(q, Get(q.result))

\* C10: check_ob_touch(symbol, price, pct) returns None iff no active OB of
\* the symbol has price in its penetration zone; otherwise it returns the
\* first matching OB, bullish list before bearish list, with entry_level equal
\* to that OB's threshold, and price lies in the returned OB's zone.
C10_TouchCheck == ~IsNone(touch) => TouchAnswer(Get(touch))

\* the query skipped a bullish OB that price has not penetrated, returned a
\* later bullish OB, and a bearish OB matches as well
C10_Witness ==
    /\ ~IsNone(touch)
    /\ ~IsNone(Get(touch).result)
    /\ Get(Get(touch).result).direction = "bullish"
    /\ Get(Get(touch).result).ob # bullish_obs[1]
    /\ BearishMatches(Get(touch)) # {}

\* C22: get_all_obs returns every OB the engine ever created, in the list of
\* its direction, the invalidated ones included and carrying their
\* invalidation bar; get_active_obs returns exactly the OBs that are not
\* invalidated.
C22_AllObsKeepsHistory ==
    /\ Range(get_all_obs.bullish) = { id \in DOMAIN ob_heap : ob_heap[id].bull }
    /\ Range(get_all_obs.bearish) = { id \in DOMAIN ob_heap : ~ob_heap[id].bull }
    /\ \A id \in DOMAIN ob_heap :
          ob_heap[id].invalidated => ~IsNone(ob_heap[id].invalidation_bar)
    /\ Range(get_active_obs(RegisteredSymbol).bullish) =
          { id \in DOMAIN ob_heap : ob_heap[id].bull /\ ~ob_heap[id].invalidated }
    /\ Range(get_active_obs(RegisteredSymbol).bearish) =
          { id \in DOMAIN ob_heap : ~ob_heap[id].bull /\ ~ob_heap[id].invalidated }

\* positions in the call's event list of the events of the given kinds
EventsOf(evs, kinds) == { i \in DOMAIN evs : evs[i][1] \in kinds }

\* C23: an OB created while a candle is processed is still fresh (neither
\* breaker nor invalidated) when process_candle returns, and its created
\* event comes before every breaker or invalidated event of that candle.
C23_FreshOnCreationBar ==
    [][ \A id \in DOMAIN ob_heap' \ DOMAIN ob_heap :
          /\ get_type(ob_heap'[id]) = "fresh"
          /\ \E i \in EventsOf(events', {"created"}) :
                /\ events'[i][2] = id
                /\ \A j \in EventsOf(events', {"breaker", "invalidated"}) : i < j ]_vars

\* a call that created an OB and, on the same candle, made an older OB a
\* breaker or invalidated it
C23_Witness ==
    /\ EventsOf(events, {"created"}) # {}
    /\ EventsOf(events, {"breaker", "invalidated"}) # {}
    /\ \A i \in EventsOf(events, {"created"}) : get_type(ob_heap[events[i][2]]) = "fresh"

\* C24: within the processing of one candle every breaker callback is
\* invoked before any invalidated callback, whatever OBs change state.
C24_BreakersBeforeInvalidations ==
    \A i \in EventsOf(events, {"invalidated"}) :
    \A j \in EventsOf(events, {"breaker"}) : j < i

\* C25: the engine keeps the full candle history: after n accepted candles
\* (current_bar counts them) its history holds all n of them, none evicted.
C25_FullHistory ==
    BufLen(candles_buffer) = current_bar

\* C26: warm-up.  While fewer than AtrWindow candles have been accepted
\* (the one being processed included), process_candle emits no event,
\* creates no OB and leaves the structure as constructed (start = 0) along
\* with up/dn and the pivots; only the history and the bar counter advance.
\* The call for candle number AtrWindow is the first to process the
\* structure: it leaves STATE 0.
C26_WarmUp ==
    [][ /\ current_bar + 1 < AtrWindow =>
              /\ events' = <<>>
              /\ structure = StructureInit
              /\ UNCHANGED <<structure, bullish_obs, bearish_obs, ob_heap,
                             up, dn, pivot_highs, pivot_lows>>
              /\ ob_heap = <<>>
              /\ current_bar' = current_bar + 1
              /\ BufLen(candles_buffer') = BufLen(candles_buffer) + 1
        /\ current_bar + 1 = AtrWindow =>
              /\ structure.start = 0
              /\ structure'.start = 1
              /\ structure'.loc = current_bar ]_vars

\* a run that buffered two candles and then processed candle AtrWindow
C26_Witness ==
    /\ bars_fed = 3
    /\ current_bar = AtrWindow
    /\ structure.start = 1
    /\ BufLen(candles_buffer) = AtrWindow

\* OHLC values no candle can have
ImpossibleOHLC(c) ==
    \/ c.high < c.low
    \/ c.open < c.low \/ c.open > c.high
    \/ c.close < c.low \/ c.close > c.high

\* C28: a malformed candle (a required field missing, or impossible OHLC)
\* and a candle for an unregistered symbol are dropped: history, bar
\* counter, structure and OB lists stay as they were and no event is
\* emitted.  So the history, well-formed after the warm-up, never holds a
\* candle with impossible OHLC, and the bar counter counts well-formed
\* candles only.
C28_MalformedCandleDropped ==
    /\ \A i \in DOMAIN candles_buffer.tail : ~ImpossibleOHLC(candles_buffer.tail[i])
    /\ ~ImpossibleOHLC(candles_buffer.warm)

\* C29: structure invariant.  In every state with start = 2: in a bullish
\* trend main >= choch, and bos, when set, is >= main; in a bearish trend
\* main <= choch, and bos, when set, is <= main.
C29_StructureInvariant ==
    structure.start = 2 =>
        /\ structure.trend \in {1, -1}
        /\ structure.trend = 1 =>
              /\ structure.main >= Get(structure.choch)
              /\ IsNone(structure.bos) \/ Get(structure.bos) >= structure.main
        /\ structure.trend = -1 =>
              /\ structure.main <= Get(structure.choch)
              /\ IsNone(structure.bos) \/ Get(structure.bos) <= structure.main

\* STATE 2 in a bullish trend with bos set and main above choch
C29_Witness ==
    /\ structure.start = 2
    /\ structure.trend = 1
    /\ ~IsNone(structure.bos)
    /\ structure.main > Get(structure.choch)

\* the structure without the two sweep flags, which every call resets
Levels(ms) == [ms EXCEPT !.upsweep = FALSE, !.dnsweep = FALSE]

\* the OBs the call created, by direction
CreatedBy(evs, dirn) ==
    { i \in DOMAIN evs : evs[i][1] = "created" /\ evs[i][3] = dirn }

\* C30: STATE 1.  For each candle processed in state 1 the sweep check runs
\* first: a down-sweep (low <= choch and close >= choch) only sets
\* choch = low and xloc, an up-sweep (high >= bos and close <= bos) only
\* sets bos = high and xloc, and neither creates an OB nor leaves state 1;
\* otherwise close <= choch creates exactly one bullish OB and sets
\* trend = -1, start = 2; otherwise close >= bos creates exactly one bearish
\* OB and sets trend = +1, start = 2; otherwise nothing changes.  (The
\* sweep flags, reset by every call, are set by the sweep that happened.)
C30_StateOne ==
    [][ (structure.start = 1 /\ current_bar' = current_bar + 1) =>
          LET c == LastCandle(candles_buffer')
              ms == structure
              choch == Get(structure.choch)
              bos == Get(structure.bos)
              noOb == ob_heap' = ob_heap /\ events' = <<>>
          IN IF c.low <= choch /\ c.close >= choch
             THEN /\ Levels(structure') =
                        Levels([ms EXCEPT !.choch = Some(c.low), !.xloc = current_bar])
                  /\ structure'.dnsweep /\ ~structure'.upsweep
                  /\ noOb
             ELSE IF c.high >= bos /\ c.close <= bos
             THEN /\ Levels(structure') =
                        Levels([ms EXCEPT !.bos = Some(c.high), !.xloc = current_bar])
                  /\ structure'.upsweep /\ ~structure'.dnsweep
                  /\ noOb
             ELSE IF c.close <= choch
             THEN /\ structure'.trend = -1 /\ structure'.start = 2
                  /\ Len(ob_heap') = Len(ob_heap) + 1
                  /\ Cardinality(CreatedBy(events', "bullish")) = 1
                  /\ CreatedBy(events', "bearish") = {}
                  /\ ob_heap'[Len(ob_heap')].bull
             ELSE IF c.close >= bos
             THEN /\ structure'.trend = 1 /\ structure'.start = 2
                  /\ Len(ob_heap') = Len(ob_heap) + 1
                  /\ Cardinality(CreatedBy(events', "bearish")) = 1
                  /\ CreatedBy(events', "bullish") = {}
                  /\ ~ob_heap'[Len(ob_heap')].bull
             ELSE /\ Levels(structure') = Levels(ms)
                  /\ ~structure'.upsweep /\ ~structure'.dnsweep
                  /\ noOb ]_vars

\* the third candle of a run broke down out of state 1 and created the
\* first OB, after the second candle had swept the high of the first
C30_Witness ==
    /\ bars_fed = 3
    /\ Len(candles_buffer.tail) = 3
    /\ structure.start = 2 /\ structure.trend = -1
    /\ Len(ob_heap) = 1 /\ ob_heap[1].bull
    /\ events = <<<<"created", 1, "bullish">>>>
    /\ candles_buffer.tail[2].high > candles_buffer.tail[1].high
    /\ candles_buffer.tail[2].close <= candles_buffer.tail[1].high

\* the OB a created event of direction dirn in the call's events names
CreatedOb(evs, heap, dirn) ==
    heap[evs[CHOOSE i \in CreatedBy(evs, dirn) : TRUE][2]]

\* C31: STATE 2 with bos set.  A candle that is not a sweep of bos and whose
\* close crosses bos in the trend direction (close >= bos in a bull trend,
\* close <= bos in a bear trend) creates one in-trend OB, clears bos, and
\* resets choch to the opposite-side extreme found by the structure-point
\* search: the low (bull trend) or high (bear trend) of the bar the search
\* for the new OB's origin ends on.
C31_BosBreak ==
    [][ (/\ structure.start = 2
         /\ ~IsNone(structure.bos)
         /\ current_bar' = current_bar + 1) =>
          LET c == LastCandle(candles_buffer')
              bos == Get(structure.bos)
              bull == structure.trend = 1
              sweep == IF bull THEN c.high >= bos /\ c.close <= bos
                       ELSE c.low <= bos /\ c.close >= bos
              cross == IF bull THEN c.close >= bos ELSE c.close <= bos
              inTrend == IF bull THEN "bullish" ELSE "bearish"
              idx == find_structure_point(structure, candles_buffer', current_bar,
                                          ~bull, FALSE)
              origin == BufAt(candles_buffer', BufLen(candles_buffer') - idx)
          IN (~sweep /\ cross) =>
                /\ Cardinality(CreatedBy(events', inTrend)) = 1
                /\ CreatedOb(events', ob_heap', inTrend).bull = bull
                /\ IsNone(structure'.bos)
                /\ structure'.choch = Some(IF bull THEN origin.low ELSE origin.high) ]_vars

\* C32: STATE 2.  A candle that is not a sweep and whose close breaks choch
\* against the trend (close <= choch in a bull trend, close >= choch in a
\* bear trend) creates exactly one OB of the direction opposite to the
\* trend and flips the trend between +1 and -1, staying in state 2; a
\* candle that sweeps choch (wick through it, close back: low <= choch and
\* close >= choch in a bull trend, high >= choch and close <= choch in a
\* bear trend) creates no OB and does not flip the trend.
C32_ChochBreak ==
    [][ (/\ structure.start = 2
         /\ current_bar' = current_bar + 1) =>
          LET c == LastCandle(candles_buffer')
              choch == Get(structure.choch)
              bull == structure.trend = 1
              sweepChoch == IF bull THEN c.low <= choch /\ c.close >= choch
                            ELSE c.high >= choch /\ c.close <= choch
              breaks == IF bull THEN c.close <= choch ELSE c.close >= choch
              against == IF bull THEN "bearish" ELSE "bullish"
          IN /\ (~structure'.upsweep /\ ~structure'.dnsweep /\ breaks) =>
                    /\ Cardinality(CreatedBy(events', against)) = 1
                    /\ structure'.trend = - structure.trend
                    /\ structure'.start = 2
             /\ sweepChoch =>
                    /\ EventsOf(events', {"created"}) = {}
                    /\ structure'.trend = structure.trend ]_vars

\* the buffered candle of bar b, when bar cur is the last candle of buf
BarAt(buf, cur, b) == BufAt(buf, BufLen(buf) - (cur - b))

\* the bars from b0 through cur that buf still holds
BarsFrom(buf, cur, b0) == { b \in b0..cur : BufLen(buf) - (cur - b) >= 1 }

\* bar k holds the extreme of the bars from b0 through cur: the highest high
\* (use_max) or the lowest low
IsExtremeBar(buf, cur, b0, k, use_max) ==
    /\ k \in BarsFrom(buf, cur, b0)
    /\ \A b \in BarsFrom(buf, cur, b0) :
          IF use_max THEN BarAt(buf, cur, b).high <= BarAt(buf, cur, k).high
          ELSE BarAt(buf, cur, b).low >= BarAt(buf, cur, k).low

\* C33: when an OB is created, its origin bar k is the bar with the lowest
\* low (bullish OB) or the highest high (bearish OB) among the bars from the
\* structure anchor loc through the current bar (so no bar k+1 is more
\* extreme than bar k), and the OB's loc is the index of the bar whose low
\* (bullish OB: btm) or high (bearish OB: top) it uses.  Stated for the
\* calls in which loc is not moved before the OB is created: STATE 1, and
\* STATE 2 with bos already set.
C33_OriginBar ==
    [][ (/\ current_bar' = current_bar + 1
         /\ structure.start = 1 \/ (structure.start = 2 /\ ~IsNone(structure.bos))) =>
          \A i \in EventsOf(events', {"created"}) :
             LET ob == ob_heap'[events'[i][2]]
                 k == ob.loc
             IN /\ IsExtremeBar(candles_buffer', current_bar, structure.loc, k, ~ob.bull)
                /\ IF ob.bull
                   THEN ob.btm = BarAt(candles_buffer', current_bar, k).low
                   ELSE ob.top = BarAt(candles_buffer', current_bar, k).high ]_vars

\* C34: OB coordinates, with atr the value stored on the origin bar (0 for a
\* bar that has none).  A bullish OB has btm = low and top = min(high, low +
\* atr); a bearish OB has top = high and btm = max(low, high - atr); avg =
\* (top + btm) / 2, btm >= low and top <= high of the origin bar; and the new
\* OB is at the head of the list of its direction.
C34_Coordinates ==
    [][ current_bar' = current_bar + 1 =>
          \A i \in EventsOf(events', {"created"}) :
             LET id == events'[i][2]
                 ob == ob_heap'[id]
                 c == BarAt(candles_buffer', current_bar, ob.loc)
             IN /\ IF ob.bull
                   THEN /\ ob.btm = c.low
                        /\ ob.top = Min2(c.high, c.low + AtrOf(c))
                        /\ bullish_obs' # <<>> /\ Head(bullish_obs') = id
                   ELSE /\ ob.top = c.high
                        /\ ob.btm = Max2(c.low, c.high - AtrOf(c))
                        /\ bearish_obs' # <<>> /\ Head(bearish_obs') = id
                /\ 2 * ob.avg = ob.top + ob.btm
                /\ ob.btm >= c.low
                /\ ob.top <= c.high ]_vars

\* the last call created a bullish OB whose top is low + atr, below the high
\* of its origin bar, and a bearish OB is in the engine's lists as well
C34_Witness ==
    /\ bearish_obs # <<>>
    /\ \E i \in EventsOf(events, {"created"}) :
          LET ob == ob_heap[events[i][2]]
              c == BarAt(candles_buffer, current_bar - 1, ob.loc)
          IN /\ ob.bull
             /\ AtrOf(c) > 0
             /\ ob.top = c.low + AtrOf(c)
             /\ ob.top < c.high
             /\ Head(bullish_obs) = events[i][2]

\* C37: fill bounds.  For every order, active or completed,
\* 0 <= filled_size <= size and 0 <= remaining_size <= size, after any
\* sequence of mark_filled (any positive fill_size) and update_from_exchange
\* calls: no order is filled for more contracts than it was placed for.
C37_FillBounds ==
    \A os \in {orders, completed_orders} : \A i \in DOMAIN os :
        /\ 0 <= os[i].filled_size /\ os[i].filled_size <= os[i].size
        /\ 0 <= os[i].remaining_size /\ os[i].remaining_size <= os[i].size

\* C38: no order is lost.  After any sequence of add_order (arbitrary
\* exchange ids), mark_filled, cancel_order, mark_rejected and
\* update_from_exchange calls every order ever added is in exactly one of the
\* active set and the completed history: total_orders = |active orders| +
\* |completed orders|, and the internal ids are pairwise distinct.
C38_NoOrderLost ==
    /\ om_stats.total_orders = Len(orders) + Len(completed_orders)
    /\ Cardinality(InternalIds(orders \o completed_orders))
          = Len(orders) + Len(completed_orders)
    /\ InternalIds(orders \o completed_orders) = 1..(next_internal_id - 1)

\* the completed orders with the given status
CompletedWith(status) ==
    { i \in DOMAIN completed_orders : completed_orders[i].status = status }

\* C39: the order statistics agree with the order sets.  filled_orders is
\* the number of completed orders with status filled, cancelled_orders the
\* number with status cancelled, rejected_orders the number with status
\* rejected; so filled + cancelled + rejected <= total_orders and fill_rate
\* (filled_orders / total_orders * 100) never exceeds 100.
C39_StatsMatchOrders ==
    /\ om_stats.filled_orders = Cardinality(CompletedWith("filled"))
    /\ om_stats.cancelled_orders = Cardinality(CompletedWith("cancelled"))
    /\ om_stats.rejected_orders = Cardinality(CompletedWith("rejected"))
    /\ om_stats.filled_orders + om_stats.cancelled_orders
          + om_stats.rejected_orders <= om_stats.total_orders
    /\ om_stats.total_orders > 0
          => om_stats.filled_orders * 100 <= 100 * om_stats.total_orders

\* C40: peak capital is a running maximum.  For every tracked symbol
\* peak_capital[symbol] >= capital[symbol] and peak_capital[symbol] >= the
\* initial capital in every state reachable by open_position,
\* partial_exit_position and close_position, and peak_capital never
\* decreases.
C40_PeakIsRunningMax ==
    /\ [](\A sym \in Symbols :
             /\ peak_capital[sym] >= capital[sym]
             /\ peak_capital[sym] >= InitialCapital)
    /\ [][\A sym \in Symbols : peak_capital'[sym] >= peak_capital[sym]]_vars

(* ------------------------ deterministic replay ------------------------ *)

\* the candles fed since the warm-up, as they were handed in (before
\* process_candle attached the ATR)
FedCandles ==
    [i \in DOMAIN candles_buffer.tail |->
        [open |-> candles_buffer.tail[i].open, high |-> candles_buffer.tail[i].high,
         low |-> candles_buffer.tail[i].low, close |-> candles_buffer.tail[i].close]]

\* the second engine after it was fed the first k of the candles cs
RECURSIVE Replay(_, _, _)
Replay(w, cs, k) ==
    IF k = 0 THEN FreshEngine(w)
    ELSE process_candle(Replay(w, cs, k - 1), cs[k])

\* the OrderBlock objects a list of references stands for
Resolve(refs, heap) == [i \in DOMAIN refs |-> heap[refs[i]]]

WriteStep == sp_call.pc \in {"mkstemp", "write", "fsync", "move"}

\* the complete text of the write in progress
NewText == Some(json_text(state_key(sp_call.file), sp_call.payload, TRUE))

\* the step is a load_* call
LoadStep == sp_calls' = sp_calls + 1 /\ sp_call'.op = "load"

\* C12: at every step of _atomic_write (temp file create, write, fsync,
\* rename), a crash or an error at any step included, the target holds its
\* complete previous content or the complete new content; a call that ends
\* (the process alive) either succeeded, with the target holding the new
\* content, or returned False without raising, with the target unchanged.
C12_AtomicWrite ==
    [][ WriteStep =>
          /\ files'[sp_call.file] \in {files[sp_call.file], NewText}
          /\ (sp_call'.pc = "idle" /\ sp_call'.outcome # "crashed") =>
                \/ /\ sp_call'.outcome = "returned" /\ sp_call'.ret_ok
                   /\ files'[sp_call.file] = NewText
                \/ /\ sp_call'.outcome = "returned" /\ ~sp_call'.ret_ok
                   /\ files' = files ]_vars

\* C13: loading a file whose content is not valid JSON returns None and moves
\* the file to a .corrupt.<timestamp> name: one more such file exists and the
\* original path holds no file afterwards.
C13_CorruptFileRenamed ==
    [][ (LoadStep /\ ~IsNone(files[sp_call'.file])
                  /\ ~Get(files[sp_call'.file]).valid) =>
          /\ IsNone(sp_call'.ret_val)
          /\ corrupt_copies' = corrupt_copies + 1
          /\ IsNone(files'[sp_call'.file]) ]_vars

====
